---- MODULE Spec2Model ----
(***************************************************************************)
(* Resource-governance core of the Eden OpenGL renderer:                   *)
(*   - VRAMManager       (budget controller)  gl_vram_manager.cpp          *)
(*   - CommandBufferPool (reusable buffers)   gl_command_buffer_pool.cpp   *)
(*                                                                         *)
(* Units.  Byte quantities of the VRAMManager are counted in MiB (every    *)
(* preset and every usage fed to the model is a whole number of MiB), and  *)
(* the float pressure thresholds are counted in percent: usage/cap >= t    *)
(* is usage * 100 >= pct * cap.  At MiB granularity no ratio of the        *)
(* presets falls within float rounding distance of a threshold, so the     *)
(* integer comparison decides exactly as the float comparison does.        *)
(* Frame counters are u32 in the source; the model stops far below 2^32,   *)
(* and last_*_frame <= current_frame always, so no subtraction wraps.      *)
(***************************************************************************)
EXTENDS Integers, Sequences, FiniteSets, TLC

VARIABLES
    vram,   \* the VRAMManager object (fields named as its members)
    scn,    \* observer of the MidRange scenario (800, 1300, 1470 MiB)
    vthr,   \* call stacks of the threads running inside the VRAMManager
    pool,   \* the CommandBufferPool object
    held,   \* handles callers hold: pairs <<caller, allocation id>>
    stale,  \* handles callers kept a copy of after releasing them
    tick,   \* position of the thread inside CommandBufferPool::TickFrame
    gc,     \* the TextureGarbageCollector object
    q,      \* what the latest query returned
    plk     \* the pool's mutex_ and the callers' positions around it

vars == <<vram, scn, vthr, pool, held, stale, tick, gc, q, plk>>

\* ------------------------------------------------------------------ bounds
MaxFrame == 120
MaxCallbacks == 2
MaxEmergencyCallbacks == 1
\* the pool of SpecPool: its configuration, callers and operation counts
PoolInitialSize == 2
PoolMaxSize == 3
PoolShrinkDelay == 2
MaxAcquisitions == 3
MaxExpansions == 1
MaxPoolFrame == 3
MaxStaleHandles == 1
MaxGrowthAcquisitions == 21
MaxGrowthFrame == 5
\* buffers the host has memory for: CreateBuffer throws std::bad_alloc beyond
HostBuffers == 6
\* the collector of SpecGcIds: frames and calls per behaviour
MaxIdFrame == 2
MaxSumFrame == 11
\* the host's frame loop of SpecFrameLoop
MaxLoopFrame == 130
MaxIdCalls == 3
\* the stepwise specifications
MaxThreadCallbacks == 1
MaxReentrantFrame == 61
MaxStackDepth == 6
MaxGateFrame == 241
MaxLockAcquisitions == 2
MaxLockFrame == 3
MaxForceFrame == 20
MaxForceEstimate == 230
MaxPurgedCount == 3
MaxListFrame == 131
MaxUsageCount == 102
MaxListEstimate == 650
MaxListCalls == 1

\* --------------------------------------------------------- VRAMManager data
\* enum class MemoryPressure, in declaration order
PNone == 0
PLow == 1
PMedium == 2
PHigh == 3
PCritical == 4

CleanupMinInterval == 60
EmergencyMinInterval == 120

\* literals of the TextureGarbageCollector
HotUsageCount == 100
HotGraceFrames == 30
PurgeTruncateOver == 10
PurgeListMax == 50
ForceMinUnused == 10

\* GetRecommendedConfig(DeviceTier::MidRange), also Config's defaults
MidRangeConfig ==
    [vram_cap_bytes |-> 1536,
     cleanup_threshold_bytes |-> 1280,
     emergency_threshold_bytes |-> 1460,
     low_pressure_threshold |-> 60,
     medium_pressure_threshold |-> 75,
     high_pressure_threshold |-> 85,
     critical_pressure_threshold |-> 95,
     enable_auto_cleanup |-> TRUE,
     enable_emergency_purge |-> TRUE]

\* The configurations a controller is constructed with: the MidRange preset,
\* with either enable flag possibly switched off by the host.
VramConfigs ==
    {[MidRangeConfig EXCEPT !.enable_auto_cleanup = a, !.enable_emergency_purge = e] :
        a \in BOOLEAN, e \in BOOLEAN}

\* Usages the host reports (MiB).  Under the MidRange preset: None; Medium
\* and >= cleanup threshold; Critical and >= emergency threshold.
UsageValues == {800, 1300, 1470}

\* Usages reported in the stepwise specifications
ThreadUsageValues == {1300, 1470}

\* Host closures registered as cleanup callbacks: what a call returns (MiB
\* freed) and whether it calls back into the controller before returning.
PlainCleanupCallbacks == {[freed |-> 64, reenter |-> "none"]}

\* State after VRAMManager::VRAMManager(config).  h_* are history fields:
\* h_events is the sequence of passes and callback invocations of the most
\* recent operation, h_cleanups / h_purges the frames at which cleanup
\* passes / emergency purges were executed.
VramInit(config) ==
    [config |-> config,
     current_usage |-> 0,
     peak_usage |-> 0,
     current_frame |-> 0,
     cleanup_callbacks |-> <<>>,
     emergency_callbacks |-> <<>>,
     cleanup_count |-> 0,
     emergency_purge_count |-> 0,
     total_bytes_freed |-> 0,
     last_pressure |-> PNone,
     last_cleanup_frame |-> 0,
     last_emergency_frame |-> 0,
     h_events |-> <<>>,
     h_cleanups |-> <<>>,
     h_purges |-> <<>>]

\* ------------------------------------------------- VRAMManager, sequential
\* mutant: the High and Medium tests are made in the wrong order
CalculatePressure_MediumFirst(s) ==
    LET u == s.current_usage * 100
        cap == s.config.vram_cap_bytes
    IN  IF u >= s.config.critical_pressure_threshold * cap THEN PCritical
        ELSE IF u >= s.config.medium_pressure_threshold * cap THEN PMedium
        ELSE IF u >= s.config.high_pressure_threshold * cap THEN PHigh
        ELSE IF u >= s.config.low_pressure_threshold * cap THEN PLow
        ELSE PNone

\* With a cap of 0 the float ratio of GetUsagePercentage is NaN for usage 0
\* (every comparison false) and +infinity for any other usage.
CalculatePressure(s) ==
    LET u == s.current_usage * 100
        cap == s.config.vram_cap_bytes
    IN  IF cap = 0 THEN (IF s.current_usage = 0 THEN PNone ELSE PCritical)
        ELSE IF u >= s.config.critical_pressure_threshold * cap THEN PCritical
        ELSE IF u >= s.config.high_pressure_threshold * cap THEN PHigh
        ELSE IF u >= s.config.medium_pressure_threshold * cap THEN PMedium
        ELSE IF u >= s.config.low_pressure_threshold * cap THEN PLow
        ELSE PNone

GetMemoryPressure(s) == CalculatePressure(s)

\* mutant: the cleanup gate is measured from the last emergency purge
CleanupGateClosed_FromPurge(s) ==
    s.current_frame - s.last_emergency_frame < CleanupMinInterval

\* the early return of ExecuteCleanup: "Don't cleanup too frequently"
\* mutant: the first cleanup pass of a controller is not rate limited
CleanupGateClosed_FirstOpen(s) ==
    /\ s.cleanup_count > 0
    /\ s.current_frame - s.last_cleanup_frame < CleanupMinInterval

CleanupGateClosed(s) ==
    s.current_frame - s.last_cleanup_frame < CleanupMinInterval

\* mutant: the purge gate is measured from the last cleanup pass
EmergencyGateClosed_FromCleanup(s) ==
    s.current_frame - s.last_cleanup_frame < EmergencyMinInterval

\* mutant: the purge gate is left open
EmergencyGateClosed_Never(s) == FALSE

\* the early return of ExecuteEmergencyPurge: "Don't purge too frequently"
EmergencyGateClosed(s) ==
    s.current_frame - s.last_emergency_frame < EmergencyMinInterval

RECURSIVE SumFreed(_)
SumFreed(cbs) ==
    IF cbs = <<>> THEN 0 ELSE Head(cbs).freed + SumFreed(Tail(cbs))

Ev(e, i) == [e |-> e, i |-> i]

CleanupEvents(s) ==
    <<Ev("cleanup_pass", 0)>> \o
        [i \in 1..Len(s.cleanup_callbacks) |-> Ev("cleanup_cb", i)]

EmergencyEvents(s) ==
    <<Ev("emergency_pass", 0)>> \o
        [i \in 1..Len(s.emergency_callbacks) |-> Ev("emergency_cb", i)]

\* mutant: total_freed is assigned, not accumulated, in the callback loop
ExecuteCleanup_LastOnly(s) ==
    IF ~s.config.enable_auto_cleanup THEN s
    ELSE IF CleanupGateClosed(s) THEN s
    ELSE [s EXCEPT !.h_events = @ \o CleanupEvents(s),
                   !.h_cleanups = Append(@, s.current_frame),
                   !.cleanup_count = @ + 1,
                   !.total_bytes_freed = @ + (IF s.cleanup_callbacks = <<>> THEN 0
                                 ELSE s.cleanup_callbacks[Len(s.cleanup_callbacks)].freed),
                   !.last_cleanup_frame = s.current_frame]

ExecuteCleanup(s) ==
    IF ~s.config.enable_auto_cleanup THEN s
    ELSE IF CleanupGateClosed(s) THEN s
    ELSE [s EXCEPT !.h_events = @ \o CleanupEvents(s),
                   !.h_cleanups = Append(@, s.current_frame),
                   !.cleanup_count = @ + 1,
                   !.total_bytes_freed = @ + SumFreed(s.cleanup_callbacks),
                   !.last_cleanup_frame = s.current_frame]

\* mutant: the purge forgets the regular cleanup
ExecuteEmergencyPurge_NoCleanup(s) ==
    IF ~s.config.enable_emergency_purge THEN s
    ELSE IF EmergencyGateClosed(s) THEN s
    ELSE [s EXCEPT !.h_events = @ \o EmergencyEvents(s),
                   !.h_purges = Append(@, s.current_frame),
                   !.emergency_purge_count = @ + 1,
                   !.last_emergency_frame = s.current_frame]

ExecuteEmergencyPurge(s) ==
    IF ~s.config.enable_emergency_purge THEN s
    ELSE IF EmergencyGateClosed(s) THEN s
    ELSE LET called == [s EXCEPT !.h_events = @ \o EmergencyEvents(s),
                                 !.h_purges = Append(@, s.current_frame)]
             cleaned == ExecuteCleanup(called)
         IN  [cleaned EXCEPT !.emergency_purge_count = @ + 1,
                             !.last_emergency_frame = cleaned.current_frame]

\* mutant: cleanup is requested on a change to Critical only
HandlePressureChange_CriticalOnly(s, new_pressure) ==
    LET s1 == IF new_pressure > PHigh THEN ExecuteCleanup(s) ELSE s
    IN  IF new_pressure = PCritical THEN ExecuteEmergencyPurge(s1) ELSE s1

HandlePressureChange(s, new_pressure) ==
    LET a == IF new_pressure >= PHigh THEN ExecuteCleanup(s) ELSE s
    IN  IF new_pressure = PCritical THEN ExecuteEmergencyPurge(a) ELSE a

\* mutant: the interval test is strict
ShouldCleanup_Strict(s) ==
    /\ s.config.enable_auto_cleanup
    /\ s.current_usage >= s.config.cleanup_threshold_bytes
    /\ s.current_frame - s.last_cleanup_frame > CleanupMinInterval

ShouldCleanup(s) ==
    /\ s.config.enable_auto_cleanup
    /\ s.current_usage >= s.config.cleanup_threshold_bytes
    /\ s.current_frame - s.last_cleanup_frame >= CleanupMinInterval

ShouldEmergencyPurge(s) ==
    /\ s.config.enable_emergency_purge
    /\ s.current_usage >= s.config.emergency_threshold_bytes
    /\ s.current_frame - s.last_emergency_frame >= EmergencyMinInterval

\* mutant: the two thresholds are tested only when the level changed
UpdateUsage_ChecksOnChange(s, current_vram_bytes) ==
    LET s1 == [s EXCEPT !.current_usage = current_vram_bytes,
                        !.peak_usage = IF current_vram_bytes > @
                                       THEN current_vram_bytes ELSE @]
        new_pressure == CalculatePressure(s1)
        s2 == [HandlePressureChange(s1, new_pressure)
                   EXCEPT !.last_pressure = new_pressure]
        s3 == IF ShouldCleanup(s2) THEN ExecuteCleanup(s2) ELSE s2
    IN  IF new_pressure = s1.last_pressure THEN s1
        ELSE IF ShouldEmergencyPurge(s3) THEN ExecuteEmergencyPurge(s3)
        ELSE s3

UpdateUsage(s, current_vram_bytes) ==
    LET s1 == [s EXCEPT !.current_usage = current_vram_bytes,
                        !.peak_usage = IF current_vram_bytes > @
                                       THEN current_vram_bytes ELSE @]
        new_pressure == CalculatePressure(s1)
        s2 == IF new_pressure # s1.last_pressure
              THEN [HandlePressureChange(s1, new_pressure)
                        EXCEPT !.last_pressure = new_pressure]
              ELSE s1
        s3 == IF ShouldCleanup(s2) THEN ExecuteCleanup(s2) ELSE s2
    IN  IF ShouldEmergencyPurge(s3) THEN ExecuteEmergencyPurge(s3) ELSE s3

RequestCleanup(s) == ExecuteCleanup(s)

ForceEmergencyPurge(s) == ExecuteEmergencyPurge(s)

RegisterCleanupCallback(s, callback) ==
    [s EXCEPT !.cleanup_callbacks = Append(@, callback)]

RegisterEmergencyCallback(s) ==
    [s EXCEPT !.emergency_callbacks = Append(@, "emergency")]

\* mutant: the frame tick tests the two thresholds as UpdateUsage does
TickFrame_ChecksThresholds(s) ==
    LET s1 == [s EXCEPT !.current_frame = @ + 1]
        s2 == IF ShouldCleanup(s1) THEN ExecuteCleanup(s1) ELSE s1
    IN  IF ShouldEmergencyPurge(s2) THEN ExecuteEmergencyPurge(s2) ELSE s2

TickFrame(s) == [s EXCEPT !.current_frame = @ + 1]

\* the float quotient current_usage_ / vram_cap_bytes, kept as its operands
GetUsagePercentage(s) ==
    [usage |-> s.current_usage, cap |-> s.config.vram_cap_bytes]

IsOverLimit(s) == s.current_usage > s.config.vram_cap_bytes

GetAvailableVRAM(s) ==
    IF s.current_usage >= s.config.vram_cap_bytes
    THEN 0
    ELSE s.config.vram_cap_bytes - s.current_usage

GetStats(s) ==
    [current_usage_mb |-> s.current_usage,
     vram_cap_mb |-> s.config.vram_cap_bytes,
     usage_percentage |-> GetUsagePercentage(s),
     pressure_level |-> GetMemoryPressure(s),
     cleanup_count |-> s.cleanup_count,
     emergency_purge_count |-> s.emergency_purge_count,
     total_bytes_freed |-> s.total_bytes_freed,
     current_frame |-> s.current_frame]

\* a new operation starts: the event log covers the most recent operation
Enter(s) == [s EXCEPT !.h_events = <<>>]

\* ------------------------------------------------------ CommandBufferPool
\* A buffer is named by its allocation_id_.  available_buffers_ is the
\* queue of handles ready for reuse, all_buffers_ the vector of tracked
\* buffers.  Pool operations hold mutex_ from entry to exit, so each is one
\* step; TickFrame takes the lock only inside ShrinkPool.
PoolConfig(initial, max, expand, shrink, delay) ==
    [initial_pool_size |-> initial,
     max_pool_size |-> max,
     auto_expand |-> expand,
     auto_shrink |-> shrink,
     shrink_delay_frames |-> delay]

\* Config's defaults
DefaultPoolConfig == PoolConfig(16, 64, TRUE, TRUE, 300)

\* CommandBufferPool::CommandBufferPool(config) with InitializePool()
PoolInit(config) ==
    [config |-> config,
     available_buffers |-> [i \in 1..config.initial_pool_size |-> i - 1],
     all_buffers |-> [i \in 1..config.initial_pool_size |-> i - 1],
     total_acquisitions |-> 0,
     total_releases |-> 0,
     pool_expansions |-> 0,
     pool_shrinks |-> 0,
     current_frame |-> 0,
     last_shrink_frame |-> 0,
     next_allocation_id |-> config.initial_pool_size]

Range(seq) == {seq[i] : i \in DOMAIN seq}

\* CreateBuffer(): the new buffer's id, and the pool with the id consumed
NewBufferId(p) == p.next_allocation_id

\* mutant: an expansion in AcquireBuffer is not counted
AcquireBuffer_ExpansionNotCounted(p) ==
    IF p.available_buffers # <<>>
    THEN [pool |-> [p EXCEPT !.available_buffers = Tail(@),
                             !.total_acquisitions = @ + 1],
          buffer |-> Head(p.available_buffers)]
    ELSE IF p.config.auto_expand /\ Len(p.all_buffers) < p.config.max_pool_size
    THEN [pool |-> [p EXCEPT !.all_buffers = Append(@, NewBufferId(p)),
                             !.next_allocation_id = @ + 1,
                             !.total_acquisitions = @ + 1],
          buffer |-> NewBufferId(p)]
    ELSE [pool |-> [p EXCEPT !.next_allocation_id = @ + 1,
                             !.total_acquisitions = @ + 1],
          buffer |-> NewBufferId(p)]

\* mutant: the temporary buffer of an exhausted pool is tracked
AcquireBuffer_OverflowTracked(p) ==
    IF p.available_buffers # <<>>
    THEN [pool |-> [p EXCEPT !.available_buffers = Tail(@),
                             !.total_acquisitions = @ + 1],
          buffer |-> Head(p.available_buffers)]
    ELSE IF p.config.auto_expand /\ Len(p.all_buffers) < p.config.max_pool_size
    THEN [pool |-> [p EXCEPT !.all_buffers = Append(@, NewBufferId(p)),
                             !.pool_expansions = @ + 1,
                             !.next_allocation_id = @ + 1,
                             !.total_acquisitions = @ + 1],
          buffer |-> NewBufferId(p)]
    ELSE [pool |-> [p EXCEPT !.all_buffers = Append(@, NewBufferId(p)),
                             !.next_allocation_id = @ + 1,
                             !.total_acquisitions = @ + 1],
          buffer |-> NewBufferId(p)]

\* AcquireBuffer(): the pool afterwards and the handle returned
AcquireBuffer(p) ==
    IF p.available_buffers # <<>>
    THEN [pool |-> [p EXCEPT !.available_buffers = Tail(@),
                             !.total_acquisitions = @ + 1],
          buffer |-> Head(p.available_buffers)]
    ELSE IF p.config.auto_expand /\ Len(p.all_buffers) < p.config.max_pool_size
    THEN [pool |-> [p EXCEPT !.all_buffers = Append(@, NewBufferId(p)),
                             !.pool_expansions = @ + 1,
                             !.next_allocation_id = @ + 1,
                             !.total_acquisitions = @ + 1],
          buffer |-> NewBufferId(p)]
    ELSE [pool |-> [p EXCEPT !.next_allocation_id = @ + 1,
                             !.total_acquisitions = @ + 1],
          buffer |-> NewBufferId(p)]

\* mutant: every released buffer is put back, tracked or not
ReleaseBuffer_NoPoolCheck(p, buffer) ==
    [p EXCEPT !.available_buffers = Append(@, buffer),
              !.total_releases = @ + 1]

\* ReleaseBuffer(buffer) for a non-null handle
ReleaseBuffer(p, buffer) ==
    LET is_pool_buffer == buffer \in Range(p.all_buffers)
    IN  [p EXCEPT !.available_buffers =
                      IF is_pool_buffer THEN Append(@, buffer) ELSE @,
                  !.total_releases = @ + 1]

\* size_t: a negative integer v stands for the value 2^64 - |v|, so that
\* size_t addition is integer addition; SizeGreater is the unsigned a > b.
SizeGreater(a, b) == IF (a < 0) = (b < 0) THEN a > b ELSE a < 0

\* the number of iterations ExpandPool(count) sets its loop to
ExpandCount(p, count) ==
    LET new_total == Len(p.all_buffers) + count
    IN  IF SizeGreater(new_total, p.config.max_pool_size)
        THEN p.config.max_pool_size - Len(p.all_buffers)
        ELSE count

\* ExpandPool(count); when the host runs out of memory inside the loop,
\* CreateBuffer throws and the buffers made so far stay in the pool
ExpandPool(p, count) ==
    LET n == ExpandCount(p, count)
        room == HostBuffers - Len(p.all_buffers)
        completes == ~SizeGreater(n, room)
        m == IF completes THEN n ELSE room
        made == [i \in 1..m |-> p.next_allocation_id + i - 1]
    IN  [p EXCEPT !.available_buffers = @ \o made,
                  !.all_buffers = @ \o made,
                  !.next_allocation_id = @ + m,
                  !.pool_expansions = IF completes THEN @ + 1 ELSE @]

ShrinkPool(p) ==
    LET available_count == Len(p.available_buffers)
        target_available == p.config.initial_pool_size \div 2
        to_remove == available_count - target_available
        removed == Range(SubSeq(p.available_buffers, 1, to_remove))
        Kept(b) == b \notin removed
    IN  IF available_count <= target_available THEN p
        ELSE [p EXCEPT !.available_buffers = SubSeq(@, to_remove + 1, Len(@)),
                       !.all_buffers = SelectSeq(@, Kept),
                       !.pool_shrinks = @ + 1,
                       !.last_shrink_frame = p.current_frame]

ShouldShrink(p) ==
    IF p.current_frame - p.last_shrink_frame < p.config.shrink_delay_frames
    THEN FALSE
    ELSE LET available_count == Len(p.available_buffers)
             total_count == Len(p.all_buffers)
         IN  /\ total_count > p.config.initial_pool_size
             /\ available_count > (total_count * 3) \div 4

\* TickFrame() when no other thread uses the pool
PoolTickFrame(p) ==
    LET ticked == [p EXCEPT !.current_frame = @ + 1]
    IN  IF ticked.config.auto_shrink /\ ShouldShrink(ticked)
        THEN ShrinkPool(ticked)
        ELSE ticked

\* GetStats(), the counts
PoolGetStats(p) ==
    [total_buffers |-> Len(p.all_buffers),
     available_buffers |-> Len(p.available_buffers),
     active_buffers |-> Len(p.all_buffers) - Len(p.available_buffers),
     total_acquisitions |-> p.total_acquisitions,
     total_releases |-> p.total_releases,
     pool_expansions |-> p.pool_expansions,
     pool_shrinks |-> p.pool_shrinks,
     current_frame |-> p.current_frame]

poolVars == <<pool, held, stale, tick>>

\* the pool is not part of the specification
PoolUnused ==
    /\ pool = PoolInit(DefaultPoolConfig)
    /\ held = {}
    /\ stale = {}
    /\ tick = "idle"

\* ------------------------------------------------ TextureGarbageCollector
\* A texture is named by its ImageId.  tracked_textures_ is an unordered_map:
\* tracked_textures is the map and order the sequence in which a loop over
\* the map meets its keys.  Sizes and the running estimate
\* current_vram_usage_ are counted in MiB.  The estimate is a u64: a value
\* v < 0 of the model stands for the u64 value 2^64 + v that an unsigned
\* subtraction below zero leaves behind.
GcConfig(threshold, aggressive, aggressive_threshold, pressure_mb, target_mb) ==
    [unused_frame_threshold |-> threshold,
     aggressive_mode |-> aggressive,
     aggressive_threshold |-> aggressive_threshold,
     memory_pressure_mb |-> pressure_mb,
     max_vram_target_mb |-> target_mb]

\* Config's defaults
DefaultGcConfig == GcConfig(60, TRUE, 30, 512, 1024)

TextureInfo(size_bytes, last_used_frame, is_render_target, usage_count) ==
    [size_bytes |-> size_bytes,
     last_used_frame |-> last_used_frame,
     is_render_target |-> is_render_target,
     usage_count |-> usage_count]

\* TextureGarbageCollector::TextureGarbageCollector(config)
GcInit(config) ==
    [config |-> config,
     current_frame |-> 0,
     current_vram_usage |-> 0,
     tracked_textures |-> <<>>,
     order |-> <<>>,
     total_textures_purged |-> 0,
     total_vram_freed |-> 0]

Tracks(g, image_id) == image_id \in DOMAIN g.tracked_textures

\* the u64 estimate holds a wrapped value
Wrapped(v) == v < 0

IsMemoryPressureHigh(g) ==
    LET vram_mb == g.current_vram_usage
    IN  \/ Wrapped(vram_mb)
        \/ vram_mb > g.config.memory_pressure_mb
        \/ vram_mb > g.config.max_vram_target_mb

GetEffectiveThreshold(g) ==
    IF g.config.aggressive_mode /\ IsMemoryPressureHigh(g)
    THEN g.config.aggressive_threshold
    ELSE g.config.unused_frame_threshold

\* mutant: the base rule asks for more than the threshold
ShouldPurgeTexture_StrictBase(g, info, frames_unused) ==
    LET threshold == GetEffectiveThreshold(g)
    IN  IF frames_unused < threshold THEN FALSE
        ELSE IF info.is_render_target THEN frames_unused > threshold * 2
        ELSE IF info.usage_count > HotUsageCount THEN frames_unused > threshold + HotGraceFrames
        ELSE IF IsMemoryPressureHigh(g) THEN frames_unused > threshold \div 2
        ELSE frames_unused > threshold

\* mutant: render targets get no extra grace
ShouldPurgeTexture_PinnedNoGrace(g, info, frames_unused) ==
    LET threshold == GetEffectiveThreshold(g)
    IN  IF frames_unused < threshold THEN FALSE
        ELSE IF info.is_render_target THEN frames_unused > threshold
        ELSE IF info.usage_count > HotUsageCount THEN frames_unused > threshold + HotGraceFrames
        ELSE IF IsMemoryPressureHigh(g) THEN frames_unused > threshold \div 2
        ELSE frames_unused >= threshold

\* mutant: the pressure rule is tested before the use count
ShouldPurgeTexture_PressureFirst(g, info, frames_unused) ==
    LET threshold == GetEffectiveThreshold(g)
    IN  IF frames_unused < threshold THEN FALSE
        ELSE IF info.is_render_target THEN frames_unused > threshold * 2
        ELSE IF IsMemoryPressureHigh(g) THEN frames_unused > threshold \div 2
        ELSE IF info.usage_count > HotUsageCount THEN frames_unused > threshold + HotGraceFrames
        ELSE frames_unused >= threshold

ShouldPurgeTexture(g, info, frames_unused) ==
    LET threshold == GetEffectiveThreshold(g)
    IN  IF frames_unused < threshold THEN FALSE
        ELSE IF info.is_render_target THEN frames_unused > threshold * 2
        ELSE IF info.usage_count > HotUsageCount THEN frames_unused > threshold + HotGraceFrames
        ELSE IF IsMemoryPressureHigh(g) THEN frames_unused > threshold \div 2
        ELSE frames_unused >= threshold

FramesUnused(g, image_id) ==
    g.current_frame - g.tracked_textures[image_id].last_used_frame

\* std::sort with the comparator Before: position of each element is the
\* number of elements that go before it; elements the comparator does not
\* separate keep the order they arrive in.  (They arrive in the map's
\* enumeration order, which is arbitrary, so every order of such elements
\* occurs.)
StdSort(seq, Before(_, _)) ==
    LET n == Len(seq)
        Rank(i) == Cardinality({j \in 1..n :
                        \/ Before(seq[j], seq[i])
                        \/ (~Before(seq[i], seq[j]) /\ j < i)})
        ranked == {<<Rank(i), seq[i]>> : i \in 1..n}
    IN  [k \in 1..n |-> (CHOOSE p \in ranked : p[1] = k - 1)[2]]

\* mutant: the use count is compared before the size
SortTexturesByPriority_CountFirst(g, textures) ==
    LET Before(a, b) ==
            LET info_a == g.tracked_textures[a]
                info_b == g.tracked_textures[b]
            IN  IF info_a.is_render_target # info_b.is_render_target
                THEN ~info_a.is_render_target /\ info_b.is_render_target
                ELSE IF info_a.usage_count # info_b.usage_count
                THEN info_a.usage_count < info_b.usage_count
                ELSE info_a.size_bytes > info_b.size_bytes
    IN  StdSort(textures, Before)

SortTexturesByPriority(g, textures) ==
    LET Before(a, b) ==
            LET info_a == g.tracked_textures[a]
                info_b == g.tracked_textures[b]
            IN  IF info_a.is_render_target # info_b.is_render_target
                THEN ~info_a.is_render_target /\ info_b.is_render_target
                ELSE IF info_a.size_bytes # info_b.size_bytes
                THEN info_a.size_bytes > info_b.size_bytes
                ELSE info_a.usage_count < info_b.usage_count
    IN  StdSort(textures, Before)

RECURSIVE SumSizes(_, _)
SumSizes(g, ids) ==
    IF ids = <<>> THEN 0
    ELSE g.tracked_textures[Head(ids)].size_bytes + SumSizes(g, Tail(ids))

\* mutant: the textures listed count as used in the current frame
GetTexturesToPurge_TouchesListed(g) ==
    LET Due(image_id) ==
            ShouldPurgeTexture(g, g.tracked_textures[image_id],
                               FramesUnused(g, image_id))
        to_purge == SortTexturesByPriority(g, SelectSeq(g.order, Due))
    IN  [gc |-> [g EXCEPT !.total_textures_purged = @ + Len(to_purge),
                          !.tracked_textures =
                              [image_id \in DOMAIN @ |->
                                  IF Due(image_id)
                                  THEN [@[image_id] EXCEPT
                                           !.last_used_frame = g.current_frame]
                                  ELSE @[image_id]]],
         ids |-> to_purge]

\* mutant: the textures listed leave the registry and the estimate
GetTexturesToPurge_DropsListed(g) ==
    LET Due(image_id) ==
            ShouldPurgeTexture(g, g.tracked_textures[image_id],
                               FramesUnused(g, image_id))
        Kept(image_id) == ~Due(image_id)
        to_purge == SortTexturesByPriority(g, SelectSeq(g.order, Due))
    IN  [gc |-> [g EXCEPT !.total_textures_purged = @ + Len(to_purge),
                          !.total_vram_freed = @ + SumSizes(g, to_purge),
                          !.current_vram_usage = @ - SumSizes(g, to_purge),
                          !.tracked_textures =
                              [image_id \in {k \in DOMAIN @ : Kept(k)} |->
                                  @[image_id]],
                          !.order = SelectSeq(@, Kept)],
         ids |-> to_purge]

\* mutant: the list is never cut
GetTexturesToPurge_NoResize(g) ==
    LET Due(image_id) ==
            ShouldPurgeTexture(g, g.tracked_textures[image_id],
                               FramesUnused(g, image_id))
        to_purge == SortTexturesByPriority(g, SelectSeq(g.order, Due))
    IN  [gc |-> [g EXCEPT !.total_textures_purged = @ + Len(to_purge),
                          !.total_vram_freed = @ + SumSizes(g, to_purge)],
         ids |-> to_purge]

\* GetTexturesToPurge(): the collector afterwards and the ids returned
GetTexturesToPurge(g) ==
    LET Due(image_id) ==
            ShouldPurgeTexture(g, g.tracked_textures[image_id],
                               FramesUnused(g, image_id))
        sorted == SortTexturesByPriority(g, SelectSeq(g.order, Due))
        to_purge == IF IsMemoryPressureHigh(g) /\ Len(sorted) > PurgeTruncateOver
                    THEN SubSeq(sorted, 1, IF Len(sorted) < PurgeListMax
                                           THEN Len(sorted) ELSE PurgeListMax)
                    ELSE sorted
    IN  [gc |-> [g EXCEPT !.total_textures_purged = @ + Len(to_purge),
                          !.total_vram_freed = @ + SumSizes(g, to_purge)],
         ids |-> to_purge]

GcTickFrame(g) == [g EXCEPT !.current_frame = @ + 1]

\* mutant: an unknown id gets a default entry, as tracked_textures_[id] would
MarkTextureUsed_InsertsUnknown(g, image_id) ==
    IF Tracks(g, image_id)
    THEN [g EXCEPT !.tracked_textures[image_id].last_used_frame = g.current_frame,
                   !.tracked_textures[image_id].usage_count = @ + 1]
    ELSE [g EXCEPT !.tracked_textures =
                       [k \in DOMAIN @ \cup {image_id} |->
                           IF k = image_id
                           THEN TextureInfo(0, g.current_frame, FALSE, 1)
                           ELSE @[k]],
                   !.order = Append(@, image_id)]

MarkTextureUsed(g, image_id) ==
    IF Tracks(g, image_id)
    THEN [g EXCEPT !.tracked_textures[image_id].last_used_frame = g.current_frame,
                   !.tracked_textures[image_id].usage_count = @ + 1]
    ELSE g

\* RegisterTexture(image_id, size_bytes, is_render_target); a new key takes
\* place pos of the enumeration
RegisterTexture(g, image_id, size_bytes, is_render_target, pos) ==
    LET info == TextureInfo(size_bytes, g.current_frame, is_render_target, 1)
        keys == DOMAIN g.tracked_textures \cup {image_id}
    IN  [g EXCEPT !.tracked_textures =
                      [k \in keys |-> IF k = image_id THEN info ELSE @[k]],
                  !.order =
                      IF Tracks(g, image_id) THEN @
                      ELSE SubSeq(@, 1, pos - 1) \o <<image_id>>
                               \o SubSeq(@, pos, Len(@)),
                  !.current_vram_usage = @ + size_bytes]

UnregisterTexture(g, image_id) ==
    LET Other(k) == k # image_id
    IN  IF Tracks(g, image_id)
        THEN [g EXCEPT !.current_vram_usage =
                           @ - g.tracked_textures[image_id].size_bytes,
                       !.tracked_textures =
                           [k \in DOMAIN @ \ {image_id} |-> @[k]],
                       !.order = SelectSeq(@, Other)]
        ELSE g

UpdateMemoryUsage(g, current_vram_bytes) ==
    [g EXCEPT !.current_vram_usage = current_vram_bytes]

\* mutant: the loop does not stop at the target
RECURSIVE ForceCleanupLoop_NoBreak(_, _, _, _)
ForceCleanupLoop_NoBreak(g, candidates, freed, target_bytes) ==
    IF candidates = <<>> THEN g
    ELSE ForceCleanupLoop_NoBreak(UnregisterTexture(g, Head(candidates)),
                                  Tail(candidates), freed, target_bytes)

\* the loop of ForceCleanup over the sorted candidates
RECURSIVE ForceCleanupLoop(_, _, _, _)
ForceCleanupLoop(g, candidates, freed, target_bytes) ==
    IF candidates = <<>> \/ freed >= target_bytes THEN g
    ELSE LET image_id == Head(candidates)
         IN  IF Tracks(g, image_id)
             THEN ForceCleanupLoop(UnregisterTexture(g, image_id), Tail(candidates),
                                   freed + g.tracked_textures[image_id].size_bytes,
                                   target_bytes)
             ELSE ForceCleanupLoop(g, Tail(candidates), freed, target_bytes)

ForceCleanupCandidates(g) ==
    LET Eligible(image_id) ==
            /\ ~g.tracked_textures[image_id].is_render_target
            /\ FramesUnused(g, image_id) > ForceMinUnused
        Older(a, b) == FramesUnused(g, a) > FramesUnused(g, b)
    IN  StdSort(SelectSeq(g.order, Eligible), Older)

ForceCleanup(g, target_free_mb) ==
    ForceCleanupLoop(g, ForceCleanupCandidates(g), 0, target_free_mb)

gcVars == <<gc, q, plk>>

\* the collector (and the pool's lock) is not part of the specification
GcUnused ==
    /\ gc = GcInit(DefaultGcConfig)
    /\ q = <<>>
    /\ plk = <<>>

\* ------------------------------------------------- the scenario's observer
\* phase 0: not in the scenario; 1: UpdateUsage(800) was called with no
\* cleanup or purge before it; 2: one TickFrame later; 3: UpdateUsage(1300)
\* was called; 4: one TickFrame later; 5: UpdateUsage(1470) was called.
\* c2 = cleanup passes run by the 1300 step, e3 / c3 = emergency purges /
\* cleanup passes run by the 1470 step.
ScnOff == [phase |-> 0, c2 |-> 0, e3 |-> 0, c3 |-> 0]

CountEv(events, e) == Cardinality({i \in DOMAIN events : events[i].e = e})

ScnAfterUpdate(before, b, after) ==
    IF b = 800 /\ before.h_cleanups = <<>> /\ before.h_purges = <<>>
    THEN [ScnOff EXCEPT !.phase = 1]
    ELSE IF scn.phase = 2 /\ b = 1300
    THEN [scn EXCEPT !.phase = 3,
                     !.c2 = CountEv(after.h_events, "cleanup_pass")]
    ELSE IF scn.phase = 4 /\ b = 1470
    THEN [scn EXCEPT !.phase = 5,
                     !.e3 = CountEv(after.h_events, "emergency_pass"),
                     !.c3 = CountEv(after.h_events, "cleanup_pass")]
    ELSE ScnOff

ScnAfterTick ==
    IF scn.phase \in {1, 3} THEN [scn EXCEPT !.phase = @ + 1] ELSE ScnOff

\* ---------------------------------------- specification Spec (sequential)
\* One thread drives the controller; every callback returns without calling
\* back into it, so each operation runs to completion as one step.
Init ==
    /\ \E c \in VramConfigs : vram = VramInit(c)
    /\ scn = ScnOff
    /\ vthr = <<>>
    /\ PoolUnused
    /\ GcUnused

DoUpdateUsage ==
    /\ \E b \in UsageValues :
           /\ vram' = UpdateUsage(Enter(vram), b)
           /\ scn' = ScnAfterUpdate(vram, b, vram')
    /\ UNCHANGED <<vthr, poolVars, gcVars>>

DoRequestCleanup ==
    /\ vram' = RequestCleanup(Enter(vram))
    /\ scn' = ScnOff
    /\ UNCHANGED <<vthr, poolVars, gcVars>>

DoForceEmergencyPurge ==
    /\ vram' = ForceEmergencyPurge(Enter(vram))
    /\ scn' = ScnOff
    /\ UNCHANGED <<vthr, poolVars, gcVars>>

DoRegisterCleanupCallback ==
    /\ Len(vram.cleanup_callbacks) < MaxCallbacks
    /\ \E cb \in PlainCleanupCallbacks :
           vram' = RegisterCleanupCallback(Enter(vram), cb)
    /\ UNCHANGED <<scn, vthr, poolVars, gcVars>>

DoRegisterEmergencyCallback ==
    /\ Len(vram.emergency_callbacks) < MaxEmergencyCallbacks
    /\ vram' = RegisterEmergencyCallback(Enter(vram))
    /\ UNCHANGED <<scn, vthr, poolVars, gcVars>>

DoTickFrame ==
    /\ vram.current_frame < MaxFrame
    /\ vram' = TickFrame(Enter(vram))
    /\ scn' = ScnAfterTick
    /\ UNCHANGED <<vthr, poolVars, gcVars>>

Next ==
    \/ DoUpdateUsage
    \/ DoRequestCleanup
    \/ DoForceEmergencyPurge
    \/ DoRegisterCleanupCallback
    \/ DoRegisterEmergencyCallback
    \/ DoTickFrame

Spec == Init /\ [][Next]_vars

\* the VRAMManager is not part of the specification
VramUnused ==
    /\ vram = VramInit(MidRangeConfig)
    /\ scn = ScnOff
    /\ vthr = <<>>

vramVars == <<vram, scn, vthr>>

\* ------------------------------------------- specification SpecPool
\* Several producers and the frame thread use one pool.  Every caller
\* releases a handle at most once.
PoolConfigs ==
    {PoolConfig(PoolInitialSize, max, e, s, PoolShrinkDelay) :
        max \in {PoolInitialSize, PoolMaxSize}, e \in BOOLEAN, s \in BOOLEAN}

\* the threads that acquire and release buffers
Callers == {"render", "worker"}

InitPool ==
    /\ \E c \in PoolConfigs : pool = PoolInit(c)
    /\ held = {}
    /\ stale = {}
    /\ tick = "idle"
    /\ VramUnused
    /\ GcUnused

PoolAcquire ==
    /\ pool.total_acquisitions < MaxAcquisitions
    /\ \E c \in Callers :
           LET r == AcquireBuffer(pool)
           IN  /\ pool' = r.pool
               /\ held' = held \cup {<<c, r.buffer>>}
    /\ UNCHANGED <<stale, tick, vramVars, gcVars>>

\* a caller returns a handle it holds and forgets it
PoolRelease ==
    /\ \E h \in held :
           /\ pool' = ReleaseBuffer(pool, h[2])
           /\ held' = held \ {h}
    /\ UNCHANGED <<stale, tick, vramVars, gcVars>>

PoolExpand ==
    /\ pool.pool_expansions < MaxExpansions
    /\ \E count \in 1..2 : pool' = ExpandPool(pool, count)
    /\ UNCHANGED <<held, stale, tick, vramVars, gcVars>>

PoolShrink ==
    /\ pool' = ShrinkPool(pool)
    /\ UNCHANGED <<held, stale, tick, vramVars, gcVars>>

\* TickFrame up to the call of ShrinkPool: the frame thread holds no lock
PoolTickBegin ==
    /\ tick = "idle"
    /\ pool.current_frame < MaxPoolFrame
    /\ pool' = [pool EXCEPT !.current_frame = @ + 1]
    /\ tick' = IF pool'.config.auto_shrink /\ ShouldShrink(pool')
               THEN "shrink" ELSE "idle"
    /\ UNCHANGED <<held, stale, vramVars, gcVars>>

\* TickFrame's call of ShrinkPool, which takes the lock
PoolTickShrink ==
    /\ tick = "shrink"
    /\ pool' = ShrinkPool(pool)
    /\ tick' = "idle"
    /\ UNCHANGED <<held, stale, vramVars, gcVars>>

NextPool ==
    \/ PoolAcquire
    \/ PoolRelease
    \/ PoolExpand
    \/ PoolShrink
    \/ PoolTickBegin
    \/ PoolTickShrink

SpecPool == InitPool /\ [][NextPool]_vars

\* ------------------------------------------- specification SpecPoolAny
\* As SpecPool, but a caller may keep a copy of a handle it released and
\* release it again.
PoolReleaseKeepingCopy ==
    /\ Cardinality(stale) < MaxStaleHandles
    /\ \E h \in held :
           /\ pool' = ReleaseBuffer(pool, h[2])
           /\ held' = held \ {h}
           /\ stale' = stale \cup {h}
    /\ UNCHANGED <<tick, vramVars, gcVars>>

PoolReleaseAgain ==
    /\ \E h \in stale :
           /\ pool' = ReleaseBuffer(pool, h[2])
           /\ stale' = stale \ {h}
    /\ UNCHANGED <<held, tick, vramVars, gcVars>>

NextPoolAny ==
    \/ PoolAcquire
    \/ PoolRelease
    \/ PoolReleaseKeepingCopy
    \/ PoolReleaseAgain
    \/ PoolExpand
    \/ PoolShrink
    \/ PoolTickBegin
    \/ PoolTickShrink

SpecPoolAny == InitPool /\ [][NextPoolAny]_vars

\* ------------------------------------------- specification SpecPoolLock
\* The pool with its mutex_ made explicit.  Two threads call the pool's
\* operations; the render thread also calls TickFrame.  plk.holder is the
\* thread that owns mutex_ ("none" if free) and plk.pc each thread's
\* position: Idle, or the operation it is in (op), where in it (at), the
\* operation's argument (arg) and where it goes when the operation returns
\* (next: back to the caller, or on to the logging part of TickFrame).
LockThreads == {"render", "worker"}
Idle == [op |-> "none", at |-> "idle", arg |-> 0, next |-> "return"]
At(op, at, arg, next) == [op |-> op, at |-> at, arg |-> arg, next |-> next]

\* current_frame_ % 300 == 0 in TickFrame
PoolLogInterval == 300

\* mutant: the lock is not released when the operation returns
ReleaseLock_Skipped(l, t) == l

\* the end of the scope of "std::lock_guard lock(mutex_)"
ReleaseLock(l, t) == [l EXCEPT !.holder = "none"]

\* where a thread is after the operation at position c returns
Returned(c) == IF c.next = "log" THEN At("TickFrame", "log", 0, "return") ELSE Idle

InitPoolLock ==
    /\ pool = PoolInit(PoolConfig(PoolInitialSize, PoolMaxSize, TRUE, TRUE, PoolShrinkDelay))
    /\ held = {}
    /\ stale = {}
    /\ tick = "idle"
    /\ VramUnused
    /\ gc = GcInit(DefaultGcConfig)
    /\ q = <<>>
    /\ plk = [holder |-> "none", pc |-> [t \in LockThreads |-> Idle]]

\* a thread calls an operation that starts by taking the lock
LkCall(t, op, arg) ==
    /\ plk.pc[t] = Idle
    /\ plk' = [plk EXCEPT !.pc[t] = At(op, "lock", arg, "return")]
    /\ UNCHANGED <<pool, held, stale, tick, vramVars, gc, q>>

LkCallAcquireBuffer ==
    /\ pool.total_acquisitions + Cardinality({t \in LockThreads :
           plk.pc[t].op = "AcquireBuffer"}) < MaxLockAcquisitions
    /\ \E t \in LockThreads : LkCall(t, "AcquireBuffer", 0)

\* ReleaseBuffer(buffer) with a handle the thread holds; the thread gives
\* the handle up with the call.  (ReleaseBuffer(nullptr) returns before the
\* lock and changes nothing.)
LkCallReleaseBuffer ==
    \E t \in LockThreads : \E h \in held :
        /\ h[1] = t
        /\ plk.pc[t] = Idle
        /\ plk' = [plk EXCEPT !.pc[t] = At("ReleaseBuffer", "lock", h[2], "return")]
        /\ held' = held \ {h}
        /\ UNCHANGED <<pool, stale, tick, vramVars, gc, q>>

LkCallExpandPool ==
    /\ pool.pool_expansions + Cardinality({t \in LockThreads :
           plk.pc[t].op = "ExpandPool"}) < MaxExpansions
    /\ \E t \in LockThreads : LkCall(t, "ExpandPool", 1)

LkCallShrinkPool ==
    \E t \in LockThreads : LkCall(t, "ShrinkPool", 0)

LkCallGetStats ==
    \E t \in LockThreads : LkCall(t, "GetStats", 0)

\* TickFrame up to the call of ShrinkPool: no lock is taken.  ShouldShrink
\* reads the two containers without the lock; while another thread is in
\* the body of an operation the read races with its writes and either
\* answer can come out.
LkTickFrame ==
    /\ plk.pc["render"] = Idle
    /\ pool.current_frame < MaxLockFrame
    /\ pool' = [pool EXCEPT !.current_frame = @ + 1]
    /\ \E should_shrink \in BOOLEAN :
           /\ plk.holder = "none" => should_shrink = ShouldShrink(pool')
           /\ plk' = [plk EXCEPT !.pc["render"] =
                          IF pool'.config.auto_shrink /\ should_shrink
                          THEN At("ShrinkPool", "lock", 0, "log")
                          ELSE At("TickFrame", "log", 0, "return")]
    /\ UNCHANGED <<held, stale, tick, vramVars, gc, q>>

\* TickFrame after the shrink: the statistics are logged every 300 frames
LkTickLog ==
    /\ plk.pc["render"].at = "log"
    /\ plk' = [plk EXCEPT !.pc["render"] =
                   IF pool.current_frame % PoolLogInterval = 0
                   THEN At("GetStats", "lock", 0, "return")
                   ELSE Idle]
    /\ UNCHANGED <<pool, held, stale, tick, vramVars, gc, q>>

\* std::lock_guard lock(mutex_): the thread waits until mutex_ is free
LkTakeLock(t) ==
    /\ plk.pc[t].at = "lock"
    /\ plk.holder = "none"
    /\ plk' = [plk EXCEPT !.holder = t, !.pc[t].at = "body"]
    /\ UNCHANGED <<pool, held, stale, tick, vramVars, gc, q>>

\* the body of the operation, under the lock, up to its return (what
\* GetStats returns is not kept by any caller)
LkBody(t) ==
    /\ plk.pc[t].at = "body"
    /\ LET c == plk.pc[t]
           r == AcquireBuffer(pool)
       IN  /\ pool' = CASE c.op = "AcquireBuffer" -> r.pool
                        [] c.op = "ReleaseBuffer" -> ReleaseBuffer(pool, c.arg)
                        [] c.op = "ExpandPool" -> ExpandPool(pool, c.arg)
                        [] c.op = "ShrinkPool" -> ShrinkPool(pool)
                        [] OTHER -> pool
           /\ held' = IF c.op = "AcquireBuffer"
                      THEN held \cup {<<t, r.buffer>>} ELSE held
           /\ plk' = [ReleaseLock(plk, t) EXCEPT !.pc[t] = Returned(c)]
    /\ UNCHANGED <<stale, tick, vramVars, gc, q>>

LkRun(t) == LkTakeLock(t) \/ LkBody(t)

NextPoolLock ==
    \/ LkCallAcquireBuffer
    \/ LkCallReleaseBuffer
    \/ LkCallExpandPool
    \/ LkCallShrinkPool
    \/ LkCallGetStats
    \/ LkTickFrame
    \/ LkTickLog
    \/ \E t \in LockThreads : LkTakeLock(t)
    \/ \E t \in LockThreads : LkBody(t)

\* Every thread that can take a step eventually takes one, and a thread
\* that finds the mutex free again and again eventually gets it.
SpecPoolLock ==
    /\ InitPoolLock
    /\ [][NextPoolLock]_vars
    /\ WF_vars(LkTickLog)
    /\ \A t \in LockThreads : WF_vars(LkBody(t)) /\ SF_vars(LkTakeLock(t))

\* ------------------------------------------- specification SpecGcForce
\* The host registers up to three textures, of 100, 50 and 30 MiB, in the
\* frames of ForceRegisterFrames, lets frames pass and forces cleanups.  q
\* notes the latest operation: for ForceCleanup its target and the ids it
\* unregistered, in the order it did.
GcIds == {1, 2, 3}
ForceSizeOf == [image_id \in GcIds |->
                   CASE image_id = 1 -> 100 [] image_id = 2 -> 50 [] OTHER -> 30]
ForceRegisterFrames == {0, 10}
ForceTargets == {0, 120, 200}
ForceUsageValues == {0}

OtherOp == [last |-> "other", target |-> 0, removed |-> <<>>]

InitGcForce ==
    /\ gc = GcInit(DefaultGcConfig)
    /\ q = OtherOp
    /\ plk = <<>>
    /\ VramUnused
    /\ PoolUnused

FcRegisterTexture ==
    /\ gc.current_frame \in ForceRegisterFrames
    /\ \E image_id \in GcIds, is_render_target \in BOOLEAN,
          pos \in 1..(Len(gc.order) + 1) :
           /\ gc.current_vram_usage + ForceSizeOf[image_id] <= MaxForceEstimate
           /\ gc' = RegisterTexture(gc, image_id, ForceSizeOf[image_id],
                                    is_render_target, pos)
    /\ q' = OtherOp
    /\ UNCHANGED <<vramVars, poolVars, plk>>

FcUnregisterTexture ==
    /\ \E image_id \in GcIds : gc' = UnregisterTexture(gc, image_id)
    /\ q' = OtherOp
    /\ UNCHANGED <<vramVars, poolVars, plk>>

FcUpdateMemoryUsage ==
    /\ \E current_vram_bytes \in ForceUsageValues :
           gc' = UpdateMemoryUsage(gc, current_vram_bytes)
    /\ q' = OtherOp
    /\ UNCHANGED <<vramVars, poolVars, plk>>

FcTickFrame ==
    /\ gc.current_frame < MaxForceFrame
    /\ gc' = GcTickFrame(gc)
    /\ q' = OtherOp
    /\ UNCHANGED <<vramVars, poolVars, plk>>

FcForceCleanup ==
    /\ \E target_free_mb \in ForceTargets :
           LET after == ForceCleanup(gc, target_free_mb)
               Gone(image_id) == ~Tracks(after, image_id)
           IN  /\ gc' = after
               /\ q' = [last |-> "ForceCleanup", target |-> target_free_mb,
                        removed |-> SelectSeq(ForceCleanupCandidates(gc), Gone)]
    /\ UNCHANGED <<vramVars, poolVars, plk>>

NextGcForce ==
    \/ FcRegisterTexture
    \/ FcUnregisterTexture
    \/ FcUpdateMemoryUsage
    \/ FcTickFrame
    \/ FcForceCleanup

SpecGcForce == InitGcForce /\ [][NextGcForce]_vars

\* ------------------------------------------- specification SpecGcList
\* The collector some way into a run: a probe texture (id 1), possibly a
\* twin of it (id 2: same size, flag and use count, its own last use) and
\* a crowd of cold textures (ids 11, 12, ...; with a crowd the probe is
\* alone, used once, under the default configuration), with the estimate as
\* the
\* host last reported it.  From there the host ticks, marks, registers,
\* unregisters, reports usage and asks for the purge list.  q holds the
\* latest list (ids), whether nothing that changes the registry or the
\* frame has happened since (fresh), whether the estimate was reported
\* anew since (reported), and the number of calls other than requests for
\* the list (calls).
ProbeIds == {1, 2}
ProbeSize == 50
CrowdSize == 10
CrowdCounts == {0, 49, 50}
CrowdIds(n) == {10 + i : i \in 1..n}
ListFrame == 130
ListUnused == {59, 61, 114, 120, 126}
TwinUnused == {61, 126}
ListUseCounts == {1, 100, 101}
ListUsageValues == {0, 600}
ListConfigs == {DefaultGcConfig, [DefaultGcConfig EXCEPT !.aggressive_mode = FALSE]}

NoList == [ids |-> <<>>, fresh |-> FALSE, reported |-> FALSE, calls |-> 0]

\* q after a call that changes the registry or the frame
Changed == [NoList EXCEPT !.calls = q.calls + 1]

InitGcList ==
    /\ \E config \in ListConfigs, n \in CrowdCounts, twin \in BOOLEAN,
          is_render_target \in BOOLEAN, usage_count \in ListUseCounts,
          unused \in [ProbeIds -> ListUnused], first \in ProbeIds,
          current_vram_bytes \in ListUsageValues :
           LET probes == IF twin THEN ProbeIds ELSE {1}
               Info(image_id) ==
                   IF image_id \in ProbeIds
                   THEN TextureInfo(ProbeSize, ListFrame - unused[image_id],
                                    is_render_target, usage_count)
                   ELSE TextureInfo(CrowdSize, 0, FALSE, 1)
           IN  /\ unused[2] \in TwinUnused
               /\ n > 0 => (~twin /\ usage_count = 1 /\ config = DefaultGcConfig)
               /\ twin \/ (first = 1 /\ unused[2] = 61)
               /\ gc = [GcInit(config) EXCEPT
                          !.current_frame = ListFrame,
                          !.current_vram_usage = current_vram_bytes,
                          !.tracked_textures =
                              [image_id \in probes \cup CrowdIds(n) |-> Info(image_id)],
                          !.order =
                              (IF ~twin THEN <<1>>
                               ELSE IF first = 1 THEN <<1, 2>> ELSE <<2, 1>>)
                                  \o [i \in 1..n |-> 10 + i]]
    /\ q = NoList
    /\ plk = <<>>
    /\ VramUnused
    /\ PoolUnused

LsGetTexturesToPurge ==
    /\ gc.total_textures_purged < MaxPurgedCount
    /\ LET r == GetTexturesToPurge(gc)
       IN  /\ gc' = r.gc
           /\ q' = [q EXCEPT !.ids = r.ids, !.fresh = TRUE, !.reported = FALSE]
    /\ UNCHANGED <<vramVars, poolVars, plk>>

LsUpdateMemoryUsage ==
    /\ q.calls < MaxListCalls
    /\ \E current_vram_bytes \in ListUsageValues :
           gc' = UpdateMemoryUsage(gc, current_vram_bytes)
    /\ q' = [q EXCEPT !.reported = q.fresh, !.calls = @ + 1]
    /\ UNCHANGED <<vramVars, poolVars, plk>>

LsTickFrame ==
    /\ q.calls < MaxListCalls
    /\ gc.current_frame < MaxListFrame
    /\ gc' = GcTickFrame(gc)
    /\ q' = Changed
    /\ UNCHANGED <<vramVars, poolVars, plk>>

LsMarkTextureUsed ==
    /\ q.calls < MaxListCalls
    /\ \E image_id \in ProbeIds :
           /\ Tracks(gc, image_id) =>
                  gc.tracked_textures[image_id].usage_count < MaxUsageCount
           /\ gc' = MarkTextureUsed(gc, image_id)
    /\ q' = Changed
    /\ UNCHANGED <<vramVars, poolVars, plk>>

LsRegisterTexture ==
    /\ q.calls < MaxListCalls
    /\ gc.current_vram_usage + ProbeSize <= MaxListEstimate
    /\ \E image_id \in ProbeIds, is_render_target \in BOOLEAN,
          pos \in {1, Len(gc.order) + 1} :
           gc' = RegisterTexture(gc, image_id, ProbeSize, is_render_target, pos)
    /\ q' = Changed
    /\ UNCHANGED <<vramVars, poolVars, plk>>

LsUnregisterTexture ==
    /\ q.calls < MaxListCalls
    /\ \E image_id \in ProbeIds : gc' = UnregisterTexture(gc, image_id)
    /\ q' = Changed
    /\ UNCHANGED <<vramVars, poolVars, plk>>

NextGcList ==
    \/ LsGetTexturesToPurge
    \/ LsUpdateMemoryUsage
    \/ LsTickFrame
    \/ LsMarkTextureUsed
    \/ LsRegisterTexture
    \/ LsUnregisterTexture

SpecGcList == InitGcList /\ [][NextGcList]_vars

\* ------------------------------------------- specification SpecPoolGrowth
\* The growth scenario: a pool with the default configuration whose
\* callers acquire and never release, while frames go by.
InitPoolGrowth ==
    /\ pool = PoolInit(DefaultPoolConfig)
    /\ held = {}
    /\ stale = {}
    /\ tick = "idle"
    /\ VramUnused
    /\ GcUnused

GrowthAcquire ==
    /\ pool.total_acquisitions < MaxGrowthAcquisitions
    /\ LET r == AcquireBuffer(pool)
       IN  /\ pool' = r.pool
           /\ held' = held \cup {<<"render", r.buffer>>}
    /\ UNCHANGED <<stale, tick, vramVars, gcVars>>

GrowthTick ==
    /\ pool.current_frame < MaxGrowthFrame
    /\ pool' = PoolTickFrame(pool)
    /\ UNCHANGED <<held, stale, tick, vramVars, gcVars>>

NextPoolGrowth == GrowthAcquire \/ GrowthTick

SpecPoolGrowth == InitPoolGrowth /\ [][NextPoolGrowth]_vars

\* ------------------------------------------------ VRAMManager, step by step
\* The same code taken one shared-memory access at a time, for callers on
\* two threads and for callbacks that call back into the controller.  A
\* thread's position is its call stack; a frame names the function, the
\* position in it (pc), its argument (a), the loop index (i), the local
\* total_freed and a value read from a member and not yet written back (t).
Threads == {"render", "thermal"}

Frame(fn, a) ==
    [fn |-> fn, pc |-> "enter", a |-> a, i |-> 1, total_freed |-> 0, t |-> 0]

Top(st) == st[Len(st)]
Return(st) == SubSeq(st, 1, Len(st) - 1)
Goto(st, f) == [st EXCEPT ![Len(st)] = f]
Call(st, f, callee) == Append(Goto(st, f), callee)
After(s, st) == [vram |-> s, stack |-> st]

\* Host closures that call back into the controller before they return
ReentrantCleanupCallbacks ==
    {[freed |-> 64, reenter |-> r] : r \in {"RequestCleanup", "UpdateUsage"}}

UpdateUsageStep(s, st) ==
    LET f == Top(st)
    IN  CASE f.pc = "enter" ->
                LET s1 == [s EXCEPT !.current_usage = f.a,
                                    !.peak_usage = IF f.a > @ THEN f.a ELSE @]
                    new_pressure == CalculatePressure(s1)
                IN  IF new_pressure # s1.last_pressure
                    THEN After(s1, Call(st, [f EXCEPT !.pc = "handled",
                                                      !.t = new_pressure],
                                        Frame("HandlePressureChange", new_pressure)))
                    ELSE After(s1, Goto(st, [f EXCEPT !.pc = "cleanup"]))
          [] f.pc = "handled" ->
                After([s EXCEPT !.last_pressure = f.t],
                      Goto(st, [f EXCEPT !.pc = "cleanup"]))
          [] f.pc = "cleanup" ->
                IF ShouldCleanup(s)
                THEN After(s, Call(st, [f EXCEPT !.pc = "purge"],
                                   Frame("ExecuteCleanup", 0)))
                ELSE After(s, Goto(st, [f EXCEPT !.pc = "purge"]))
          [] f.pc = "purge" ->
                IF ShouldEmergencyPurge(s)
                THEN After(s, Call(st, [f EXCEPT !.pc = "return"],
                                   Frame("ExecuteEmergencyPurge", 0)))
                ELSE After(s, Return(st))
          [] OTHER -> After(s, Return(st))

HandlePressureChangeStep(s, st) ==
    LET f == Top(st)
    IN  CASE f.pc = "enter" ->
                IF f.a >= PHigh
                THEN After(s, Call(st, [f EXCEPT !.pc = "critical"],
                                   Frame("ExecuteCleanup", 0)))
                ELSE After(s, Goto(st, [f EXCEPT !.pc = "critical"]))
          [] f.pc = "critical" ->
                IF f.a = PCritical
                THEN After(s, Call(st, [f EXCEPT !.pc = "return"],
                                   Frame("ExecuteEmergencyPurge", 0)))
                ELSE After(s, Return(st))
          [] OTHER -> After(s, Return(st))

ExecuteCleanupStep(s, st) ==
    LET f == Top(st)
    IN  CASE f.pc = "enter" ->
                IF ~s.config.enable_auto_cleanup \/ CleanupGateClosed(s)
                THEN After(s, Return(st))
                ELSE After([s EXCEPT !.h_cleanups = Append(@, s.current_frame)],
                           Goto(st, [f EXCEPT !.pc = "callbacks"]))
          [] f.pc = "callbacks" /\ f.i <= Len(s.cleanup_callbacks) ->
                LET callback == s.cleanup_callbacks[f.i]
                    g == [f EXCEPT !.i = @ + 1,
                                   !.total_freed = @ + callback.freed]
                IN  CASE callback.reenter = "RequestCleanup" ->
                            After(s, Call(st, g, Frame("ExecuteCleanup", 0)))
                      [] callback.reenter = "UpdateUsage" ->
                            After(s, Call(st, g, Frame("UpdateUsage", s.current_usage)))
                      [] OTHER -> After(s, Goto(st, g))
          [] f.pc = "callbacks" /\ f.i > Len(s.cleanup_callbacks) ->
                After(s, Goto(st, [f EXCEPT !.pc = "count", !.t = s.cleanup_count]))
          [] OTHER ->
                After([s EXCEPT !.cleanup_count = f.t + 1,
                                !.total_bytes_freed = @ + f.total_freed,
                                !.last_cleanup_frame = s.current_frame],
                      Return(st))

ExecuteEmergencyPurgeStep(s, st) ==
    LET f == Top(st)
    IN  CASE f.pc = "enter" ->
                IF ~s.config.enable_emergency_purge \/ EmergencyGateClosed(s)
                THEN After(s, Return(st))
                ELSE After([s EXCEPT !.h_purges = Append(@, s.current_frame)],
                           Goto(st, [f EXCEPT !.pc = "callbacks"]))
          [] f.pc = "callbacks" /\ f.i <= Len(s.emergency_callbacks) ->
                After(s, Goto(st, [f EXCEPT !.i = @ + 1]))
          [] f.pc = "callbacks" /\ f.i > Len(s.emergency_callbacks) ->
                After(s, Call(st, [f EXCEPT !.pc = "count"],
                              Frame("ExecuteCleanup", 0)))
          [] f.pc = "count" ->
                After(s, Goto(st, [f EXCEPT !.pc = "stamp",
                                            !.t = s.emergency_purge_count]))
          [] OTHER ->
                After([s EXCEPT !.emergency_purge_count = f.t + 1,
                                !.last_emergency_frame = s.current_frame],
                      Return(st))

\* the next step of a thread whose call stack is st
StepOf(s, st) ==
    CASE Top(st).fn = "UpdateUsage" -> UpdateUsageStep(s, st)
      [] Top(st).fn = "HandlePressureChange" -> HandlePressureChangeStep(s, st)
      [] Top(st).fn = "ExecuteCleanup" -> ExecuteCleanupStep(s, st)
      [] OTHER -> ExecuteEmergencyPurgeStep(s, st)

\* cleanup passes / purges in progress on a call stack
RunningCleanups(st) ==
    Cardinality({k \in DOMAIN st : st[k].fn = "ExecuteCleanup" /\ st[k].pc # "enter"})
RunningPurges(st) ==
    Cardinality({k \in DOMAIN st : st[k].fn = "ExecuteEmergencyPurge" /\ st[k].pc # "enter"})

\* ------------------------------------------- specification SpecThreads
\* The render thread reports usage and ticks frames; the thermal thread
\* calls ForceEmergencyPurge whenever it likes.  No lock is taken anywhere
\* in the VRAMManager, so the two threads' steps interleave freely.  The
\* host registers its callbacks before the first frame; they return without
\* calling back.
InitThreads ==
    /\ vram = VramInit(MidRangeConfig)
    /\ vthr = [t \in Threads |-> <<>>]
    /\ scn = ScnOff
    /\ PoolUnused
    /\ GcUnused

ThRegisterCleanupCallback ==
    /\ vram.current_frame = 0
    /\ vthr["render"] = <<>>
    /\ Len(vram.cleanup_callbacks) < MaxThreadCallbacks
    /\ \E cb \in PlainCleanupCallbacks :
           vram' = RegisterCleanupCallback(vram, cb)
    /\ UNCHANGED <<scn, vthr, poolVars, gcVars>>

ThRegisterEmergencyCallback ==
    /\ vram.current_frame = 0
    /\ vthr["render"] = <<>>
    /\ Len(vram.emergency_callbacks) < MaxThreadCallbacks
    /\ vram' = RegisterEmergencyCallback(vram)
    /\ UNCHANGED <<scn, vthr, poolVars, gcVars>>

ThTickFrame ==
    /\ vthr["render"] = <<>>
    /\ vram.current_frame < MaxFrame
    /\ vram' = TickFrame(vram)
    /\ UNCHANGED <<scn, vthr, poolVars, gcVars>>

ThUpdateUsage ==
    /\ vthr["render"] = <<>>
    /\ \E b \in ThreadUsageValues :
           vthr' = [vthr EXCEPT !["render"] = <<Frame("UpdateUsage", b)>>]
    /\ UNCHANGED <<vram, scn, poolVars, gcVars>>

ThForceEmergencyPurge ==
    /\ vthr["thermal"] = <<>>
    /\ vthr' = [vthr EXCEPT !["thermal"] = <<Frame("ExecuteEmergencyPurge", 0)>>]
    /\ UNCHANGED <<vram, scn, poolVars, gcVars>>

ThStep ==
    /\ \E t \in Threads :
           /\ vthr[t] # <<>>
           /\ LET r == StepOf(vram, vthr[t])
              IN  /\ vram' = r.vram
                  /\ vthr' = [vthr EXCEPT ![t] = r.stack]
    /\ UNCHANGED <<scn, poolVars, gcVars>>

NextThreads ==
    \/ ThRegisterCleanupCallback
    \/ ThRegisterEmergencyCallback
    \/ ThTickFrame
    \/ ThUpdateUsage
    \/ ThForceEmergencyPurge
    \/ ThStep

SpecThreads == InitThreads /\ [][NextThreads]_vars

\* ------------------------------------------- specification SpecReentrant
\* One thread drives the controller; a cleanup callback may call
\* RequestCleanup or UpdateUsage (with the usage unchanged) before it
\* returns.  Call stacks are followed up to MaxStackDepth frames.
InitReentrant ==
    /\ vram = VramInit(MidRangeConfig)
    /\ vthr = [t \in Threads |-> <<>>]
    /\ scn = ScnOff
    /\ PoolUnused
    /\ GcUnused

ReRegisterCleanupCallback ==
    /\ vram.current_frame = 0
    /\ vthr["render"] = <<>>
    /\ Len(vram.cleanup_callbacks) < MaxThreadCallbacks
    /\ \E cb \in PlainCleanupCallbacks \cup ReentrantCleanupCallbacks :
           vram' = RegisterCleanupCallback(vram, cb)
    /\ UNCHANGED <<scn, vthr, poolVars, gcVars>>

ReTickFrame ==
    /\ vthr["render"] = <<>>
    /\ vram.current_frame < MaxReentrantFrame
    /\ vram' = TickFrame(vram)
    /\ UNCHANGED <<scn, vthr, poolVars, gcVars>>

ReUpdateUsage ==
    /\ vthr["render"] = <<>>
    /\ \E b \in ThreadUsageValues :
           vthr' = [vthr EXCEPT !["render"] = <<Frame("UpdateUsage", b)>>]
    /\ UNCHANGED <<vram, scn, poolVars, gcVars>>

ReRequestCleanup ==
    /\ vthr["render"] = <<>>
    /\ vthr' = [vthr EXCEPT !["render"] = <<Frame("ExecuteCleanup", 0)>>]
    /\ UNCHANGED <<vram, scn, poolVars, gcVars>>

ReStep ==
    /\ vthr["render"] # <<>>
    /\ LET r == StepOf(vram, vthr["render"])
       IN  /\ Len(r.stack) <= MaxStackDepth
           /\ vram' = r.vram
           /\ vthr' = [vthr EXCEPT !["render"] = r.stack]
    /\ UNCHANGED <<scn, poolVars, gcVars>>

NextReentrant ==
    \/ ReRegisterCleanupCallback
    \/ ReTickFrame
    \/ ReUpdateUsage
    \/ ReRequestCleanup
    \/ ReStep

SpecReentrant == InitReentrant /\ [][NextReentrant]_vars

\* ------------------------------------------- specification SpecPressure
\* The pressure level as a function of usage: a controller constructed with
\* any cap and any four thresholds (ordered or not), to which the host
\* reports usages and whose level it reads back after each report.  q holds
\* the two most recent readings.
PressureThresholds == {60, 75, 95}
PressureCaps == {0, 1024, 1536}
PressureUsages == {0, 700, 1000, 1300, 1470, 1600}

PressureConfigs ==
    {[MidRangeConfig EXCEPT !.vram_cap_bytes = cap,
                            !.low_pressure_threshold = l,
                            !.medium_pressure_threshold = m,
                            !.high_pressure_threshold = h,
                            !.critical_pressure_threshold = c] :
        cap \in PressureCaps, l \in PressureThresholds, m \in PressureThresholds,
        h \in PressureThresholds, c \in PressureThresholds}

InitPressure ==
    /\ \E c \in PressureConfigs : vram = VramInit(c)
    /\ scn = ScnOff
    /\ vthr = <<>>
    /\ PoolUnused
    /\ gc = GcInit(DefaultGcConfig)
    /\ q = <<>>
    /\ plk = <<>>

PrUpdateUsage ==
    /\ \E b \in PressureUsages :
           /\ vram' = UpdateUsage(Enter(vram), b)
           /\ q' = IF q = <<>>
                   THEN [a |-> b, pa |-> GetMemoryPressure(vram'),
                         b |-> b, pb |-> GetMemoryPressure(vram')]
                   ELSE [a |-> q.b, pa |-> q.pb,
                         b |-> b, pb |-> GetMemoryPressure(vram')]
    /\ UNCHANGED <<scn, vthr, poolVars, gc, plk>>

NextPressure == PrUpdateUsage

SpecPressure == InitPressure /\ [][NextPressure]_vars

\* ------------------------------------------- specification SpecGate
\* The controller over more than two purge intervals, with automatic
\* cleanup switched off by the host so that only the purge gate acts.  The
\* host registers its callbacks before the first frame, then reports usage,
\* asks for purges and ticks frames in any order; usage is either far below
\* or above both action thresholds.
GateUsageValues == {800, 1470}

GateConfig == [MidRangeConfig EXCEPT !.enable_auto_cleanup = FALSE]

InitGate ==
    /\ vram = VramInit(GateConfig)
    /\ scn = ScnOff
    /\ vthr = <<>>
    /\ PoolUnused
    /\ GcUnused

GateRegisterCleanupCallback ==
    /\ vram.current_frame = 0
    /\ Len(vram.cleanup_callbacks) < MaxThreadCallbacks
    /\ \E cb \in PlainCleanupCallbacks :
           vram' = RegisterCleanupCallback(Enter(vram), cb)
    /\ UNCHANGED <<scn, vthr, poolVars, gcVars>>

GateRegisterEmergencyCallback ==
    /\ vram.current_frame = 0
    /\ Len(vram.emergency_callbacks) < MaxThreadCallbacks
    /\ vram' = RegisterEmergencyCallback(Enter(vram))
    /\ UNCHANGED <<scn, vthr, poolVars, gcVars>>

GateUpdateUsage ==
    /\ \E b \in GateUsageValues : vram' = UpdateUsage(Enter(vram), b)
    /\ UNCHANGED <<scn, vthr, poolVars, gcVars>>

GateForceEmergencyPurge ==
    /\ vram' = ForceEmergencyPurge(Enter(vram))
    /\ UNCHANGED <<scn, vthr, poolVars, gcVars>>

GateTickFrame ==
    /\ vram.current_frame < MaxGateFrame
    /\ vram' = TickFrame(Enter(vram))
    /\ UNCHANGED <<scn, vthr, poolVars, gcVars>>

NextGate ==
    \/ GateRegisterCleanupCallback
    \/ GateRegisterEmergencyCallback
    \/ GateUpdateUsage
    \/ GateForceEmergencyPurge
    \/ GateTickFrame

SpecGate == InitGate /\ [][NextGate]_vars

\* ------------------------------------------------------------------ claims
\* frame of the most recent cleanup pass / purge in a history, 0 if none:
\* construction leaves last_cleanup_frame_ = last_emergency_frame_ = 0
LastOr0(frames) == IF frames = <<>> THEN 0 ELSE frames[Len(frames)]

Spaced(frames, interval) ==
    \A i, j \in DOMAIN frames : i < j => frames[j] - frames[i] >= interval

\* C1: cleanup gate.  Any two executed cleanup passes, whatever path ran
\* them (threshold check, pressure change, RequestCleanup, emergency purge),
\* are at least 60 frames apart; the counter counts exactly the passes and
\* no operation runs more than one pass.
C1_CleanupGate ==
    /\ Spaced(vram.h_cleanups, CleanupMinInterval)
    /\ vram.cleanup_count = Len(vram.h_cleanups)
    /\ CountEv(vram.h_events, "cleanup_pass") <= 1
    /\ CountEv(vram.h_events, "cleanup_cb") =
           CountEv(vram.h_events, "cleanup_pass") * Len(vram.cleanup_callbacks)

\* An emergency purge ran in the latest operation and its cleanup pass was
\* refused, a cleanup pass having run less than 60 frames earlier.
C1_Witness ==
    /\ vram.config.enable_auto_cleanup
    /\ vram.h_cleanups # <<>>
    /\ vram.current_frame - LastOr0(vram.h_cleanups) \in 1..(CleanupMinInterval - 1)
    /\ CountEv(vram.h_events, "emergency_pass") = 1
    /\ CountEv(vram.h_events, "cleanup_pass") = 0
    /\ vram.current_usage >= vram.config.cleanup_threshold_bytes

AllCleanupCallbacksRan(before, after) ==
    after.h_events = CleanupEvents(before)

AllEmergencyCallbacksRan(before, after) ==
    /\ Len(after.h_events) >= 1 + Len(before.emergency_callbacks)
    /\ SubSeq(after.h_events, 1, 1 + Len(before.emergency_callbacks))
           = EmergencyEvents(before)

\* C9 as stated: every RequestCleanup invokes all cleanup callbacks and
\* every ForceEmergencyPurge all emergency callbacks, whatever the frame.
C9_Original ==
    [][/\ DoRequestCleanup => AllCleanupCallbacksRan(vram, vram')
       /\ DoForceEmergencyPurge => AllEmergencyCallbacksRan(vram, vram')]_vars

\* C9 amended: both are gated.  RequestCleanup runs the cleanup callbacks
\* iff auto-cleanup is enabled and the last cleanup pass (or construction)
\* is at least 60 frames back; ForceEmergencyPurge runs the emergency
\* callbacks iff emergency purge is enabled and the last purge (or
\* construction) is at least 120 frames back; otherwise the call changes
\* nothing.
C9_ManualOpsGated ==
    [][/\ DoRequestCleanup =>
              IF /\ vram.config.enable_auto_cleanup
                 /\ vram.current_frame - LastOr0(vram.h_cleanups)
                        >= CleanupMinInterval
              THEN AllCleanupCallbacksRan(vram, vram')
              ELSE vram' = Enter(vram)
       /\ DoForceEmergencyPurge =>
              IF /\ vram.config.enable_emergency_purge
                 /\ vram.current_frame - LastOr0(vram.h_purges)
                        >= EmergencyMinInterval
              THEN AllEmergencyCallbacksRan(vram, vram')
              ELSE vram' = Enter(vram)]_vars

\* A cleanup pass that only RequestCleanup can have run: usage is below
\* every threshold and no purge ran with it.
C9_Witness ==
    /\ vram.h_events = CleanupEvents(vram)
    /\ Len(vram.cleanup_callbacks) = MaxCallbacks
    /\ vram.current_usage < vram.config.cleanup_threshold_bytes
    /\ vram.last_pressure < PHigh
    /\ Len(vram.h_cleanups) = 2

\* positions in the latest operation's event log
EvAt(e) == {i \in DOMAIN vram.h_events : vram.h_events[i].e = e}

Tracked(p) == Range(p.all_buffers)
HeldBuffers == {h[2] : h \in held}
Holders(b) == {h[1] : h \in {x \in held : x[2] = b}}
TimesAvailable(p, b) ==
    Cardinality({i \in DOMAIN p.available_buffers : p.available_buffers[i] = b})

\* C3: when every handle is released at most once, the tracked buffers in
\* the available queue plus the tracked buffers callers hold are the tracked
\* total; overflow buffers are in neither count, and the available count
\* never exceeds the total.
C3_PoolConservation ==
    LET stats == PoolGetStats(pool)
    IN  /\ Range(pool.available_buffers) \subseteq Tracked(pool)
        /\ stats.available_buffers
               + Cardinality(HeldBuffers \cap Tracked(pool))
           = stats.total_buffers
        /\ stats.active_buffers = Cardinality(HeldBuffers \cap Tracked(pool))
        /\ stats.available_buffers <= stats.total_buffers

\* a pool that expanded and shrank and took a buffer back, with a tracked
\* and an overflow buffer held and a buffer available
C3_Witness ==
    /\ pool.pool_shrinks > 0
    /\ pool.pool_expansions > 0
    /\ pool.available_buffers # <<>>
    /\ HeldBuffers \cap Tracked(pool) # {}
    /\ HeldBuffers \ Tracked(pool) # {}
    /\ pool.total_releases > 0

\* C4 as stated: a tracked buffer is in the available queue exactly once or
\* held by exactly one caller, never both, also when a handle is released
\* more than once.
C4_ExclusiveOwnership ==
    \A b \in Tracked(pool) :
        TimesAvailable(pool, b) + Cardinality(Holders(b)) = 1

\* C5 as stated: no shrink takes the tracked total below initial_pool_size.
C5_ShrinkFloor ==
    Len(pool.all_buffers) >= pool.config.initial_pool_size

\* the 20 acquisitions of the growth scenario have been made
GrowthDone == pool.total_acquisitions = 20 /\ pool.total_releases = 0

\* C6 as stated: after the 20 acquisitions one expansion is recorded.
C6_Original ==
    GrowthDone =>
        /\ Len(pool.all_buffers) = 20
        /\ pool.pool_expansions = 1

\* C6: with initial 16, max 64 and auto-expand, 20 acquisitions without a
\* release leave the tracked total at 20, all 20 buffers held, and four
\* expansions recorded, one for each acquisition that found the queue empty.
C6_GrowthScenario ==
    GrowthDone =>
        /\ PoolGetStats(pool).total_buffers = 20
        /\ Cardinality(held) = 20
        /\ HeldBuffers = Tracked(pool)
        /\ PoolGetStats(pool).pool_expansions = 20 - pool.config.initial_pool_size
        /\ PoolGetStats(pool).pool_expansions = 4

C6_Witness ==
    /\ GrowthDone
    /\ pool.config = DefaultPoolConfig
    /\ pool.available_buffers = <<>>
    /\ pool.current_frame > 0

\* ------------------------------------------------------- stepwise claims
AllIdle == \A t \in Threads : vthr[t] = <<>>

\* C7 as stated: with ForceEmergencyPurge on the thermal thread and
\* UpdateUsage on the render thread, purges are at least 120 frames apart
\* and cleanup passes at least 60, never two at once, and once both threads
\* have returned the counters equal the passes executed.
C7_Serialized ==
    /\ Spaced(vram.h_purges, EmergencyMinInterval)
    /\ Spaced(vram.h_cleanups, CleanupMinInterval)
    /\ RunningPurges(vthr["render"]) + RunningPurges(vthr["thermal"]) <= 1
    /\ RunningCleanups(vthr["render"]) + RunningCleanups(vthr["thermal"]) <= 1
    /\ AllIdle =>
           /\ vram.emergency_purge_count = Len(vram.h_purges)
           /\ vram.cleanup_count = Len(vram.h_cleanups)
           /\ vram.total_bytes_freed =
                  Len(vram.h_cleanups) * SumFreed(vram.cleanup_callbacks)

\* C8 as stated: while a cleanup pass runs its callbacks no other cleanup
\* pass is started on the same call stack.
C8_NoNestedPass == RunningCleanups(vthr["render"]) <= 1

\* ------------------------------------------------- pressure and purge gate
\* C11: for a fixed configuration the pressure level is monotonic in the
\* usage: of two readings the one at the larger usage is at least as high,
\* and two readings at the same usage agree whatever was reported between.
C11_MonotonicPressure ==
    q # <<>> =>
        /\ q.a < q.b => q.pa <= q.pb
        /\ q.b < q.a => q.pb <= q.pa
        /\ q.a = q.b => q.pa = q.pb

\* two readings at different usages and different levels, under thresholds
\* that are not in increasing order
C11_Witness ==
    /\ q # <<>>
    /\ q.a < q.b
    /\ q.pa = PLow
    /\ q.pb = PCritical
    /\ vram.config.critical_pressure_threshold < vram.config.high_pressure_threshold
    /\ vram.config.vram_cap_bytes # 0

\* C20: emergency gate.  Any two executed emergency purges, whatever path
\* ran them (threshold check, transition to Critical, ForceEmergencyPurge),
\* are at least 120 frames apart; the counter counts exactly the purges, no
\* operation runs more than one, and the emergency callbacks run once per
\* purge.
C20_EmergencyGate ==
    /\ Spaced(vram.h_purges, EmergencyMinInterval)
    /\ vram.emergency_purge_count = Len(vram.h_purges)
    /\ CountEv(vram.h_events, "emergency_pass") <= 1
    /\ CountEv(vram.h_events, "emergency_cb") =
           CountEv(vram.h_events, "emergency_pass") * Len(vram.emergency_callbacks)

\* a second purge has just run its callback, 120 frames after the first,
\* with usage above the emergency threshold
C20_Witness ==
    /\ vram.h_purges = <<121, 241>>
    /\ vram.current_frame = 241
    /\ vram.current_usage >= vram.config.emergency_threshold_bytes
    /\ CountEv(vram.h_events, "emergency_cb") = 1

\* ------------------------------------------------- pool claims, continued
\* the pool cannot serve an acquisition from its tracked buffers
Exhausted(p) ==
    /\ p.available_buffers = <<>>
    /\ \/ Len(p.all_buffers) >= p.config.max_pool_size
       \/ ~p.config.auto_expand

\* C17: AcquireBuffer on an exhausted pool hands out a buffer that has never
\* been handed out before and is not tracked; the tracked buffers, the
\* available queue and the expansions statistic stay as they were and the
\* acquisitions statistic grows by one.
C17_ExhaustionOverflow ==
    [][(PoolAcquire /\ Exhausted(pool)) =>
          /\ pool'.all_buffers = pool.all_buffers
          /\ pool'.available_buffers = <<>>
          /\ pool'.pool_expansions = pool.pool_expansions
          /\ pool'.pool_shrinks = pool.pool_shrinks
          /\ pool'.total_acquisitions = pool.total_acquisitions + 1
          /\ \E h \in held' \ held :
                 /\ held' = held \cup {h}
                 /\ h[2] \notin Tracked(pool')
                 /\ h[2] \notin HeldBuffers
                 /\ h[2] = pool.next_allocation_id]_vars

\* an expanding pool at its maximum, nothing available, a temporary buffer
\* handed out
C17_Witness ==
    /\ pool.config.auto_expand
    /\ Len(pool.all_buffers) = pool.config.max_pool_size
    /\ pool.available_buffers = <<>>
    /\ HeldBuffers \ Tracked(pool) # {}
    /\ pool.total_acquisitions > Len(pool.all_buffers)

\* C18 as stated: when the auto-shrink of TickFrame removes buffers, more
\* than 75% of the tracked buffers are available and the tracked total
\* exceeds initial_pool_size at that moment.
C18_ShrinkDecisionAtomic ==
    [][(PoolTickShrink /\ pool'.pool_shrinks > pool.pool_shrinks) =>
          /\ Len(pool.all_buffers) > pool.config.initial_pool_size
          /\ Len(pool.available_buffers) > (Len(pool.all_buffers) * 3) \div 4]_vars

\* the mutex is owned exactly by a thread that is in the body of a locking
\* operation; a thread about to lock does not own it, an idle thread and a
\* thread in the unlocked parts of TickFrame do not own it
LockDiscipline ==
    \A t \in LockThreads :
        (plk.holder = t) <=> (plk.pc[t].at = "body")

RECURSIVE SizeOfAll(_, _)
SizeOfAll(g, ids) ==
    IF ids = {} THEN 0
    ELSE LET image_id == CHOOSE x \in ids : TRUE
         IN  g.tracked_textures[image_id].size_bytes
                 + SizeOfAll(g, ids \ {image_id})

\* the step is a call of ForceCleanup
ForceCleanupStep == q'.last = "ForceCleanup"

RemovedIds == DOMAIN gc.tracked_textures \ DOMAIN gc'.tracked_textures

\* the three-resource scenario: 100, 50 and 30 MiB, none pinned, all unused
\* for 20 frames, and nothing else tracked
ForceScenario ==
    /\ DOMAIN gc.tracked_textures = GcIds
    /\ \A image_id \in GcIds :
           /\ ~gc.tracked_textures[image_id].is_render_target
           /\ FramesUnused(gc, image_id) = 20

\* C15 as stated: in the scenario ForceCleanup(120) unregisters the 100 MiB
\* and the 50 MiB resource and leaves the 30 MiB resource tracked, whatever
\* the enumeration order.
C15_Original ==
    [][(ForceCleanupStep /\ q'.target = 120 /\ ForceScenario)
          => DOMAIN gc'.tracked_textures = {3}]_vars

\* C15: in the scenario the three candidates tie on framesUnused and
\* ForceCleanup(120) unregisters them in the order the sort leaves them in
\* until at least 120 MiB are freed: it always unregisters the 100 MiB
\* resource and one or both of the others, frees at least 120 MiB, and
\* stops as soon as 120 MiB are reached; the 30 MiB resource stays tracked
\* only when the 100 MiB and the 50 MiB resource are the first two visited.
C15_ForceScenario ==
    [][(ForceCleanupStep /\ q'.target = 120 /\ ForceScenario)
          => /\ 1 \in RemovedIds
             /\ Len(q'.removed) \in {2, 3}
             /\ SizeOfAll(gc, RemovedIds) >= 120
             /\ SizeOfAll(gc, RemovedIds)
                    - ForceSizeOf[q'.removed[Len(q'.removed)]] < 120
             /\ Tracks(gc', 3) <=> q'.removed \in {<<1, 2>>, <<2, 1>>}]_vars

\* the scenario ran with the 100 MiB resource enumerated last: all three
\* resources are gone
C15_Witness ==
    /\ q.last = "ForceCleanup"
    /\ q.target = 120
    /\ q.removed = <<3, 2, 1>>
    /\ gc.current_frame = 20
    /\ gc.tracked_textures = <<>>

EligibleIds(g) ==
    {image_id \in DOMAIN g.tracked_textures :
        /\ ~g.tracked_textures[image_id].is_render_target
        /\ FramesUnused(g, image_id) > 10}

\* what a ForceCleanup step unregisters: a prefix of the eligible resources
RemovesPrefix ==
    LET freed == SizeOfAll(gc, RemovedIds)
        n == Len(q'.removed)
    IN  /\ RemovedIds \subseteq EligibleIds(gc)
        /\ \A r \in RemovedIds : \A e \in EligibleIds(gc) \ RemovedIds :
               FramesUnused(gc, r) >= FramesUnused(gc, e)
        /\ \A image_id \in DOMAIN gc'.tracked_textures :
               gc'.tracked_textures[image_id] = gc.tracked_textures[image_id]
        /\ n > 0 => freed - gc.tracked_textures[q'.removed[n]].size_bytes
                        < q'.target
        /\ freed < q'.target => RemovedIds = EligibleIds(gc)

\* the u64 estimate after the step is the estimate before it minus the
\* freed size
EstimateGoesDown ==
    /\ Wrapped(gc'.current_vram_usage) = Wrapped(gc.current_vram_usage)
    /\ gc'.current_vram_usage
           = gc.current_vram_usage - SizeOfAll(gc, RemovedIds)

\* C16: ForceCleanup(target) unregisters a prefix of the eligible resources
\* (not pinned, unused for more than 10 frames) in order of non-increasing
\* framesUnused: nothing else is unregistered, it stops as soon as the
\* freed size reaches the target (target 0 removes nothing), otherwise it
\* removes every eligible resource, and the estimate goes down by exactly
\* the freed size.
C16_ForceCleanupPrefix ==
    [][ForceCleanupStep => RemovesPrefix /\ EstimateGoesDown]_vars

\* the part of C16 on which resources are unregistered, on its own
ForceCleanupRemovesPrefix == [][ForceCleanupStep => RemovesPrefix]_vars

\* ------------------------------------------- claims on the purge list
\* the step is a call of GetTexturesToPurge
PurgeListStep == q'.fresh /\ q'.calls = q.calls

Listed(ids, image_id) == \E i \in DOMAIN ids : ids[i] = image_id

\* C12: with the pressure predicate false, a texture that is not a render
\* target and has usage_count <= 100 is in the list returned by
\* GetTexturesToPurge if and only if it has been unused for at least
\* unused_frame_threshold frames.
C12_GraceOrdering ==
    [][(PurgeListStep /\ ~IsMemoryPressureHigh(gc)) =>
          \A image_id \in DOMAIN gc.tracked_textures :
              LET info == gc.tracked_textures[image_id]
              IN  (~info.is_render_target /\ info.usage_count <= HotUsageCount)
                      => (Listed(q'.ids, image_id)
                              <=> FramesUnused(gc, image_id)
                                      >= gc.config.unused_frame_threshold)]_vars

\* two textures equal but for their last use, one unused for threshold - 1
\* frames and one for threshold + 1, and the list names only the second
C12_Witness ==
    /\ q.fresh /\ q.calls = 0
    /\ ~IsMemoryPressureHigh(gc)
    /\ DOMAIN gc.tracked_textures = ProbeIds
    /\ ~gc.tracked_textures[1].is_render_target
    /\ gc.tracked_textures[1].usage_count = HotUsageCount
    /\ gc.tracked_textures[2] =
           [gc.tracked_textures[1] EXCEPT !.last_used_frame = @ - 2]
    /\ FramesUnused(gc, 1) = gc.config.unused_frame_threshold - 1
    /\ q.ids = <<2>>

\* C13 as stated: a render target is in the list if and only if it has
\* been unused for more than twice the effective threshold.
C13_Original ==
    [][PurgeListStep =>
          \A image_id \in DOMAIN gc.tracked_textures :
              gc.tracked_textures[image_id].is_render_target
                  => (Listed(q'.ids, image_id)
                          <=> FramesUnused(gc, image_id)
                                  > 2 * GetEffectiveThreshold(gc))]_vars

\* C13: a render target in the list has been unused for more than twice
\* the effective threshold; a render target unused for that long is in the
\* list unless the pressure predicate holds and the list was cut to its
\* first 50 entries.
C13_PinnedGrace ==
    [][PurgeListStep =>
          \A image_id \in DOMAIN gc.tracked_textures :
              gc.tracked_textures[image_id].is_render_target
                  => /\ Listed(q'.ids, image_id)
                            => FramesUnused(gc, image_id)
                                   > 2 * GetEffectiveThreshold(gc)
                     /\ (/\ FramesUnused(gc, image_id)
                                > 2 * GetEffectiveThreshold(gc)
                         /\ ~Listed(q'.ids, image_id))
                            => /\ IsMemoryPressureHigh(gc)
                               /\ Len(q'.ids) = PurgeListMax]_vars

\* two render targets under the base threshold of 60 frames, one unused
\* for 114 frames (1.9 x 60) and one for 126 (2.1 x 60): only the second
\* is listed
C13_Witness ==
    /\ q.fresh /\ q.calls = 0
    /\ ~IsMemoryPressureHigh(gc)
    /\ DOMAIN gc.tracked_textures = ProbeIds
    /\ gc.tracked_textures[1].is_render_target
    /\ gc.tracked_textures[2].is_render_target
    /\ FramesUnused(gc, 1) = 114
    /\ FramesUnused(gc, 2) = 126
    /\ q.ids = <<2>>

\* C14 as stated: a call of GetTexturesToPurge returns the list the call
\* before it returned when no MarkTextureUsed, RegisterTexture,
\* UnregisterTexture or TickFrame came between the two.
C14_Original ==
    [][(PurgeListStep /\ q.fresh) => q'.ids = q.ids]_vars

\* C14: a call of GetTexturesToPurge returns the list the call before it
\* returned, in the same order, when no MarkTextureUsed, RegisterTexture,
\* UnregisterTexture, TickFrame or UpdateMemoryUsage came between the two.
C14_IdempotentQuery ==
    [][(PurgeListStep /\ q.fresh /\ ~q.reported) => q'.ids = q.ids]_vars

\* the list was asked for twice in a row, and both times it named two
\* textures that tie on the render-target flag, the size and the use count
C14_Witness ==
    /\ q.fresh /\ q.calls = 0
    /\ Len(q.ids) = 2
    /\ gc.total_textures_purged = 4
    /\ gc.tracked_textures[1].is_render_target = gc.tracked_textures[2].is_render_target
    /\ gc.tracked_textures[1].size_bytes = gc.tracked_textures[2].size_bytes
    /\ gc.tracked_textures[1].usage_count = gc.tracked_textures[2].usage_count

\* --------------------------------------- specification SpecEscalate
\* The controller of a LowEnd or a MidRange device over more than one purge
\* interval.  The host registers its callbacks before the first frame, then
\* reports usage and ticks frames in any order.

\* GetRecommendedConfig(DeviceTier::LowEnd)
LowEndConfig ==
    [vram_cap_bytes |-> 1024,
     cleanup_threshold_bytes |-> 870,
     emergency_threshold_bytes |-> 970,
     low_pressure_threshold |-> 50,
     medium_pressure_threshold |-> 65,
     high_pressure_threshold |-> 80,
     critical_pressure_threshold |-> 90,
     enable_auto_cleanup |-> TRUE,
     enable_emergency_purge |-> TRUE]

\* either preset; the host may switch either enable flag of the MidRange
\* preset off
EscalateConfigs == {LowEndConfig} \cup VramConfigs

\* Usages the host reports (MiB).  LowEnd: None, High below the cleanup
\* threshold, Critical below the emergency threshold, Critical, Critical.
\* MidRange: None, None, Low, High, Critical.
EscalateUsageValues == {500, 830, 930, 1350, 1470}

MaxEscalateFrame == 121

InitEscalate ==
    /\ \E c \in EscalateConfigs : vram = VramInit(c)
    /\ scn = ScnOff
    /\ vthr = <<>>
    /\ PoolUnused
    /\ GcUnused

EsRegisterCleanupCallback ==
    /\ vram.current_frame = 0
    /\ Len(vram.cleanup_callbacks) < MaxThreadCallbacks
    /\ \E cb \in PlainCleanupCallbacks :
           vram' = RegisterCleanupCallback(Enter(vram), cb)
    /\ UNCHANGED <<scn, vthr, poolVars, gcVars>>

EsRegisterEmergencyCallback ==
    /\ vram.current_frame = 0
    /\ Len(vram.emergency_callbacks) < MaxThreadCallbacks
    /\ vram' = RegisterEmergencyCallback(Enter(vram))
    /\ UNCHANGED <<scn, vthr, poolVars, gcVars>>

EsUpdateUsage ==
    /\ \E b \in EscalateUsageValues : vram' = UpdateUsage(Enter(vram), b)
    /\ UNCHANGED <<scn, vthr, poolVars, gcVars>>

EsTickFrame ==
    /\ vram.current_frame < MaxEscalateFrame
    /\ vram' = TickFrame(Enter(vram))
    /\ UNCHANGED <<scn, vthr, poolVars, gcVars>>

NextEscalate ==
    \/ EsRegisterCleanupCallback
    \/ EsRegisterEmergencyCallback
    \/ EsUpdateUsage
    \/ EsTickFrame

SpecEscalate == InitEscalate /\ [][NextEscalate]_vars

\* the block of events occurs, contiguously, in the log of an operation
RanIn(events, block) ==
    \E c \in DOMAIN events :
        /\ c + Len(block) - 1 <= Len(events)
        /\ SubSeq(events, c, c + Len(block) - 1) = block

\* ----------------------------------------- specification SpecNoTick
\* A host that never calls the controller's TickFrame.  Auto-cleanup is
\* enabled; the host registers callbacks and keeps reporting usage at or
\* above the cleanup threshold of its configuration.  q counts the reports
\* made so far, up to MaxNoTickCalls.
NoTickConfigs == {c \in EscalateConfigs : c.enable_auto_cleanup}

MaxNoTickCalls == 3

InitNoTick ==
    /\ \E c \in NoTickConfigs : vram = VramInit(c)
    /\ scn = ScnOff
    /\ vthr = <<>>
    /\ PoolUnused
    /\ gc = GcInit(DefaultGcConfig)
    /\ q = 0
    /\ plk = <<>>

NtRegisterCleanupCallback ==
    /\ Len(vram.cleanup_callbacks) < MaxThreadCallbacks
    /\ \E cb \in PlainCleanupCallbacks :
           vram' = RegisterCleanupCallback(Enter(vram), cb)
    /\ UNCHANGED <<scn, vthr, poolVars, gcVars>>

NtRegisterEmergencyCallback ==
    /\ Len(vram.emergency_callbacks) < MaxThreadCallbacks
    /\ vram' = RegisterEmergencyCallback(Enter(vram))
    /\ UNCHANGED <<scn, vthr, poolVars, gcVars>>

NtUpdateUsage ==
    /\ \E b \in EscalateUsageValues :
           /\ b >= vram.config.cleanup_threshold_bytes
           /\ vram' = UpdateUsage(Enter(vram), b)
    /\ q' = IF q < MaxNoTickCalls THEN q + 1 ELSE q
    /\ UNCHANGED <<scn, vthr, poolVars, gc, plk>>

NextNoTick ==
    \/ NtRegisterCleanupCallback
    \/ NtRegisterEmergencyCallback
    \/ NtUpdateUsage

\* the host never stops reporting usage
SpecNoTick == InitNoTick /\ [][NextNoTick]_vars /\ WF_vars(NtUpdateUsage)

\* C22 as stated: with auto-cleanup enabled, usage reported again and again
\* at or above the cleanup threshold and TickFrame never called, a cleanup
\* pass eventually runs.
C22_Original == <>(vram.cleanup_count > 0)

\* C22 amended: the gates read the frame counter that only TickFrame
\* advances.  If TickFrame is never called the counter stays 0, as do
\* last_cleanup_frame and last_emergency_frame, and no cleanup pass and no
\* emergency purge ever runs, however often UpdateUsage reports usage at
\* or above the thresholds.
C22_NoTickNoCleanup ==
    vram.current_frame = 0 =>
        /\ vram.h_events = <<>>
        /\ vram.h_cleanups = <<>> /\ vram.cleanup_count = 0
        /\ vram.h_purges = <<>> /\ vram.emergency_purge_count = 0

\* usage was reported above both thresholds again and again (the peak is
\* an earlier report) with callbacks registered, and no frame was ticked
C22_Witness ==
    /\ vram.current_frame = 0
    /\ q = MaxNoTickCalls
    /\ vram.config.enable_emergency_purge
    /\ vram.current_usage >= vram.config.emergency_threshold_bytes
    /\ vram.peak_usage > vram.current_usage
    /\ Len(vram.cleanup_callbacks) = MaxThreadCallbacks
    /\ Len(vram.emergency_callbacks) = MaxThreadCallbacks

\* ------------------------------------------ specification SpecAlloc
\* The host reports usage and asks whether allocations fit.  Sizes are u64
\* byte counts in MiB; as for the collector's estimate, a negative integer
\* v stands for the u64 value 2^64 bytes - |v| MiB, so that u64 addition is
\* integer addition and U64LessEq is the unsigned comparison.
U64LessEq(a, b) == IF Wrapped(a) = Wrapped(b) THEN a <= b ELSE Wrapped(b)

\* VRAMManager::CanAllocate
CanAllocate(s, size_bytes) ==
    U64LessEq(s.current_usage + size_bytes, s.config.vram_cap_bytes)

AllocConfigs == {LowEndConfig, MidRangeConfig}

\* reported usages: none, below, at and above either cap
AllocUsageValues == {0, 500, 1024, 1300, 1536, 1600}

\* requested sizes: nothing, small ones around what is left under either
\* cap, and sizes within 1600 MiB of 2^64 bytes
AllocSizes == {0, 1, 236, 237, 524, 525, 1536, -1, -500, -1300, -1600}

InitAlloc ==
    /\ \E c \in AllocConfigs : vram = VramInit(c)
    /\ scn = ScnOff
    /\ vthr = <<>>
    /\ PoolUnused
    /\ gc = GcInit(DefaultGcConfig)
    /\ q = <<>>
    /\ plk = <<>>

AlUpdateUsage ==
    /\ \E b \in AllocUsageValues : vram' = UpdateUsage(Enter(vram), b)
    /\ UNCHANGED <<scn, vthr, poolVars, gcVars>>

\* q is the latest query and its answer
AlCanAllocate ==
    /\ \E size_bytes \in AllocSizes :
           q' = [size_bytes |-> size_bytes,
                 result |-> CanAllocate(vram, size_bytes)]
    /\ UNCHANGED <<vramVars, poolVars, gc, plk>>

NextAlloc ==
    \/ AlUpdateUsage
    \/ AlCanAllocate

SpecAlloc == InitAlloc /\ [][NextAlloc]_vars

\* current_usage + size <= cap over the naturals: a size within reach of
\* 2^64 bytes exceeds every cap
FitsUnderCap(current_usage, size_bytes, cap) ==
    /\ ~Wrapped(size_bytes)
    /\ current_usage + size_bytes <= cap

\* C23: CanAllocate(size) answers true exactly when current usage plus size
\* is at most the cap, also when the sum exceeds 2^64 - 1, and it changes
\* no state of the controller.
C23_CanAllocateExact ==
    [][AlCanAllocate =>
          /\ q'.result <=> FitsUnderCap(vram.current_usage, q'.size_bytes,
                                        vram.config.vram_cap_bytes)
          /\ vram' = vram]_vars

\* default argument of ForceCleanup, and the target the documentation
\* gives for the cleanup of a frame tick (MiB)
ForceCleanupDefaultTarget == 256

\* C24: when memory pressure is high the collector's TickFrame forces a
\* cleanup with a target of 256 MB besides incrementing the frame counter.
C24_TickForcesCleanup ==
    [][(LsTickFrame /\ IsMemoryPressureHigh(gc)) =>
          gc' \in {ForceCleanup(GcTickFrame(gc), ForceCleanupDefaultTarget),
                   GcTickFrame(ForceCleanup(gc, ForceCleanupDefaultTarget))}]_vars

\* C25: while the pressure predicate holds, a texture that is not a render
\* target and has a use count of at most 100 is in the list of
\* GetTexturesToPurge if and only if it has been unused for more than half
\* the effective threshold (integer division).
C25_AggressiveReclamation ==
    [][(PurgeListStep /\ IsMemoryPressureHigh(gc)) =>
          \A image_id \in DOMAIN gc.tracked_textures :
              (/\ ~gc.tracked_textures[image_id].is_render_target
               /\ gc.tracked_textures[image_id].usage_count <= HotUsageCount)
                  => (Listed(q'.ids, image_id)
                          <=> FramesUnused(gc, image_id)
                                  > GetEffectiveThreshold(gc) \div 2)]_vars

\* ----------------------------------------- specification SpecGcOrder
\* The collector at frame 130 with three textures registered at frame 0
\* and not all used since: each is large or small, a render target or
\* not, used once or five times, and the map enumerates them in any
\* order.  The host ticks, marks and asks for the purge list.
OrderIds == {1, 2, 3}
OrderSizes == {10, 50}
OrderUseCounts == {1, 5}
OrderEnumerations ==
    {<<1, 2, 3>>, <<1, 3, 2>>, <<2, 1, 3>>, <<2, 3, 1>>, <<3, 1, 2>>, <<3, 2, 1>>}

InitGcOrder ==
    /\ \E size_bytes \in [OrderIds -> OrderSizes],
          is_render_target \in [OrderIds -> BOOLEAN],
          usage_count \in [OrderIds -> OrderUseCounts],
          order \in OrderEnumerations,
          current_vram_bytes \in ListUsageValues :
           gc = [GcInit(DefaultGcConfig) EXCEPT
                    !.current_frame = ListFrame,
                    !.current_vram_usage = current_vram_bytes,
                    !.tracked_textures =
                        [image_id \in OrderIds |->
                            TextureInfo(size_bytes[image_id], 0,
                                        is_render_target[image_id],
                                        usage_count[image_id])],
                    !.order = order]
    /\ q = NoList
    /\ plk = <<>>
    /\ VramUnused
    /\ PoolUnused

NextGcOrder ==
    \/ LsGetTexturesToPurge
    \/ LsTickFrame
    \/ LsMarkTextureUsed

SpecGcOrder == InitGcOrder /\ [][NextGcOrder]_vars

\* C26: in the list of GetTexturesToPurge every texture that is not a
\* render target precedes every render target; of two with the same flag
\* the larger comes first; of two with the same flag and size the one with
\* the lower use count comes first.
C26_CandidateOrdering ==
    [][PurgeListStep =>
          \A i, j \in DOMAIN q'.ids :
              i < j =>
                  LET a == gc.tracked_textures[q'.ids[i]]
                      b == gc.tracked_textures[q'.ids[j]]
                  IN  /\ ~(a.is_render_target /\ ~b.is_render_target)
                      /\ a.is_render_target = b.is_render_target
                             => a.size_bytes >= b.size_bytes
                      /\ (/\ a.is_render_target = b.is_render_target
                          /\ a.size_bytes = b.size_bytes)
                             => a.usage_count <= b.usage_count]_vars

\* a large render target enumerated first is listed last; the two small
\* plain textures before it, the one used once ahead of the one used five
\* times
C26_Witness ==
    /\ q.fresh
    /\ gc.order = <<1, 2, 3>>
    /\ gc.tracked_textures[1] = TextureInfo(50, 0, TRUE, 1)
    /\ gc.tracked_textures[2] = TextureInfo(10, 0, FALSE, 5)
    /\ gc.tracked_textures[3] = TextureInfo(10, 0, FALSE, 1)
    /\ q.ids = <<3, 2, 1>>

\* every texture due for purging, in priority order
OrderedCandidates(g) ==
    LET Due(image_id) ==
            ShouldPurgeTexture(g, g.tracked_textures[image_id],
                               FramesUnused(g, image_id))
    IN  SortTexturesByPriority(g, SelectSeq(g.order, Due))

\* C27: while the pressure predicate holds GetTexturesToPurge returns at
\* most 50 ids, the first 50 of the ordered candidates (all of them when
\* there are fewer); when it does not hold the list is not cut.
C27_BoundedList ==
    [][PurgeListStep =>
          LET full == OrderedCandidates(gc)
          IN  IF IsMemoryPressureHigh(gc)
              THEN /\ Len(q'.ids) <= PurgeListMax
                   /\ q'.ids = SubSeq(full, 1, IF Len(full) < PurgeListMax
                                               THEN Len(full)
                                               ELSE PurgeListMax)
              ELSE q'.ids = full]_vars

\* under pressure, with the probe and 50 cold textures all due, the list
\* is the probe (the largest) and 49 of the 50
C27_Witness ==
    /\ q.fresh /\ q.calls = 0
    /\ IsMemoryPressureHigh(gc)
    /\ Len(OrderedCandidates(gc)) = PurgeListMax + 1
    /\ Len(q.ids) = PurgeListMax
    /\ q.ids[1] = 1

\* C28: GetTexturesToPurge is advisory.  It leaves the registry (the ids
\* and every texture's size, last used frame, use count and render-target
\* flag), the estimate and the frame counter as they were; every id it
\* returns is tracked and occurs once in the list; only the purge
\* statistics change.
C28_Advisory ==
    [][PurgeListStep =>
          /\ gc' = [gc EXCEPT
                       !.total_textures_purged = gc'.total_textures_purged,
                       !.total_vram_freed = gc'.total_vram_freed]
          /\ \A i \in DOMAIN q'.ids : Tracks(gc', q'.ids[i])
          /\ \A i, j \in DOMAIN q'.ids : q'.ids[i] = q'.ids[j] => i = j]_vars

\* a query that listed both probes: they are still tracked with their
\* sizes in the estimate, and the statistics count them
C28_Witness ==
    /\ q.fresh /\ q.calls = 0
    /\ Len(q.ids) = 2
    /\ DOMAIN gc.tracked_textures = ProbeIds
    /\ gc.current_frame = ListFrame
    /\ gc.total_textures_purged = 2
    /\ gc.total_vram_freed = 2 * ProbeSize

\* what the callbacks invoked in a log of events returned, in total
RECURSIVE ReturnedBy(_, _)
ReturnedBy(events, callbacks) ==
    IF events = <<>> THEN 0
    ELSE (IF Head(events).e = "cleanup_cb"
          THEN callbacks[Head(events).i].freed ELSE 0)
             + ReturnedBy(Tail(events), callbacks)

\* C30: every executed cleanup pass invokes each registered cleanup
\* callback exactly once, in registration order; it adds the sum of the
\* values they return to total_bytes_freed and one to cleanup_count.
C30_CleanupPass ==
    [][LET events == vram'.h_events
           passes == {c \in DOMAIN events : events[c].e = "cleanup_pass"}
           n == Len(vram.cleanup_callbacks)
       IN  /\ \A c \in passes :
                  /\ c + n <= Len(events)
                  /\ \A k \in 1..n : events[c + k] = Ev("cleanup_cb", k)
           /\ CountEv(events, "cleanup_cb") = n * Cardinality(passes)
           /\ vram'.cleanup_count = vram.cleanup_count + Cardinality(passes)
           /\ vram'.total_bytes_freed
                  = vram.total_bytes_freed
                        + ReturnedBy(events, vram.cleanup_callbacks)]_vars

\* the second cleanup pass of a controller with two callbacks that free
\* 64 MiB each
C30_Witness ==
    /\ Len(vram.cleanup_callbacks) = MaxCallbacks
    /\ vram.h_events = CleanupEvents(vram)
    /\ vram.cleanup_count = 2
    /\ vram.total_bytes_freed = 256

\* C29 as stated: every UpdateUsage with usage at or above the cleanup
\* threshold, 60 frames or more after the last cleanup pass, runs a cleanup
\* pass in that call, and every UpdateUsage with usage at or above the
\* emergency threshold, 120 frames or more after the last purge, runs an
\* emergency purge, whether or not the level changed.  (Frames are counted
\* from construction while no pass has run.)
C29_Original ==
    [][EsUpdateUsage =>
          /\ (/\ vram'.current_usage >= vram.config.cleanup_threshold_bytes
              /\ vram.current_frame - LastOr0(vram.h_cleanups)
                     >= CleanupMinInterval)
                 => CountEv(vram'.h_events, "cleanup_pass") >= 1
          /\ (/\ vram'.current_usage >= vram.config.emergency_threshold_bytes
              /\ vram.current_frame - LastOr0(vram.h_purges)
                     >= EmergencyMinInterval)
                 => CountEv(vram'.h_events, "emergency_pass") >= 1]_vars

\* C29 amended: the threshold checks run on every update, under the enable
\* flags.  With auto-cleanup enabled, every UpdateUsage with usage at or
\* above the cleanup threshold, 60 frames or more after the last cleanup
\* pass (or construction), runs exactly one cleanup pass in that call, also
\* when the level is the one of the previous call; with emergency purge
\* enabled, every UpdateUsage with usage at or above the emergency
\* threshold, 120 frames or more after the last purge (or construction),
\* runs exactly one emergency purge.
C29_ThresholdChecks ==
    [][EsUpdateUsage =>
          /\ (/\ vram.config.enable_auto_cleanup
              /\ vram'.current_usage >= vram.config.cleanup_threshold_bytes
              /\ vram.current_frame - LastOr0(vram.h_cleanups)
                     >= CleanupMinInterval)
                 => /\ CountEv(vram'.h_events, "cleanup_pass") = 1
                    /\ RanIn(vram'.h_events, CleanupEvents(vram))
          /\ (/\ vram.config.enable_emergency_purge
              /\ vram'.current_usage >= vram.config.emergency_threshold_bytes
              /\ vram.current_frame - LastOr0(vram.h_purges)
                     >= EmergencyMinInterval)
                 => /\ CountEv(vram'.h_events, "emergency_pass") = 1
                    /\ RanIn(vram'.h_events, EmergencyEvents(vram))]_vars

\* On a LowEnd device usage is 930 MiB, as before: Critical, at or above
\* the cleanup threshold and below the emergency threshold.  The purge gate
\* is open and no purge has ever run, so the level did not change in the
\* latest call (a change to Critical would have purged): its cleanup pass
\* came from the threshold check.
C29_Witness ==
    /\ vram.config = LowEndConfig
    /\ vram.current_usage = 930 /\ vram.peak_usage = 930
    /\ vram.last_pressure = PCritical
    /\ vram.current_frame >= EmergencyMinInterval
    /\ vram.h_purges = <<>>
    /\ Len(vram.cleanup_callbacks) = MaxThreadCallbacks
    /\ Len(vram.emergency_callbacks) = MaxThreadCallbacks
    /\ vram.h_events = CleanupEvents(vram)

\* an UpdateUsage step that saw the level change to High or Critical
EscalationStep ==
    /\ EsUpdateUsage
    /\ vram'.last_pressure # vram.last_pressure
    /\ vram'.last_pressure >= PHigh

HotSizes == {10, 50}
HotUseCounts == {100, 101}
HotUnused == {59, 61, 90, 91}

InitGcHot ==
    /\ \E config \in ListConfigs, n \in CrowdCounts,
          size_bytes \in HotSizes, usage_count \in HotUseCounts,
          unused \in HotUnused, current_vram_bytes \in ListUsageValues :
           gc = [GcInit(config) EXCEPT
                    !.current_frame = ListFrame,
                    !.current_vram_usage = current_vram_bytes,
                    !.tracked_textures =
                        [image_id \in {1} \cup CrowdIds(n) |->
                            IF image_id = 1
                            THEN TextureInfo(size_bytes, ListFrame - unused,
                                             FALSE, usage_count)
                            ELSE TextureInfo(CrowdSize, 0, FALSE, 1)],
                    !.order = <<1>> \o [i \in 1..n |-> 10 + i]]
    /\ q = NoList
    /\ plk = <<>>
    /\ VramUnused
    /\ PoolUnused

NextGcHot ==
    \/ LsGetTexturesToPurge
    \/ LsUpdateMemoryUsage
    \/ LsTickFrame
    \/ LsMarkTextureUsed

SpecGcHot == InitGcHot /\ [][NextGcHot]_vars

\* C31 as stated: a texture that is not a render target and has a use
\* count above 100 is in the list of GetTexturesToPurge if and only if it
\* has been unused for more than the effective threshold plus 30 frames,
\* with or without pressure.
C31_Original ==
    [][PurgeListStep =>
          \A image_id \in DOMAIN gc.tracked_textures :
              (/\ ~gc.tracked_textures[image_id].is_render_target
               /\ gc.tracked_textures[image_id].usage_count > HotUsageCount)
                  => (Listed(q'.ids, image_id)
                          <=> FramesUnused(gc, image_id)
                                  > GetEffectiveThreshold(gc)
                                        + HotGraceFrames)]_vars

\* C31 amended: such a texture in the list has been unused for more than
\* the effective threshold plus 30 frames, with or without pressure; one
\* unused for that long is in the list unless the pressure predicate holds
\* and the list was cut to its first 50 entries.
C31_HotGrace ==
    [][PurgeListStep =>
          \A image_id \in DOMAIN gc.tracked_textures :
              (/\ ~gc.tracked_textures[image_id].is_render_target
               /\ gc.tracked_textures[image_id].usage_count > HotUsageCount)
                  => /\ Listed(q'.ids, image_id)
                            => FramesUnused(gc, image_id)
                                   > GetEffectiveThreshold(gc) + HotGraceFrames
                     /\ (/\ FramesUnused(gc, image_id)
                                > GetEffectiveThreshold(gc) + HotGraceFrames
                         /\ ~Listed(q'.ids, image_id))
                            => /\ IsMemoryPressureHigh(gc)
                               /\ Len(q'.ids) = PurgeListMax]_vars

\* under pressure with the aggressive threshold of 30 frames, a texture
\* used 101 times and unused for 61 frames is listed
C31_Witness ==
    /\ q.fresh /\ q.calls = 0
    /\ IsMemoryPressureHigh(gc)
    /\ GetEffectiveThreshold(gc) = gc.config.aggressive_threshold
    /\ gc.tracked_textures[1].usage_count = 101
    /\ FramesUnused(gc, 1) = 61
    /\ Listed(q.ids, 1)

\* ---------------------------------------- specification SpecPoolDrop
\* Callers acquire and release, possibly keeping a copy of a handle they
\* released and releasing it again, or releasing a null handle, while the
\* pool is expanded and shrunk.  q notes whether the handle released last
\* was null.
NullHandle == -1

\* mutant: a null handle is released like any other
ReleaseHandle_NullCounted(p, buffer) == ReleaseBuffer(p, buffer)

\* ReleaseBuffer(buffer) for any handle
ReleaseHandle(p, buffer) ==
    IF buffer = NullHandle THEN p ELSE ReleaseBuffer(p, buffer)

InitPoolDrop ==
    /\ \E c \in PoolConfigs : pool = PoolInit(c)
    /\ held = {}
    /\ stale = {}
    /\ tick = "idle"
    /\ VramUnused
    /\ gc = GcInit(DefaultGcConfig)
    /\ q = FALSE
    /\ plk = <<>>

DropRelease(h) ==
    /\ h \in held
    /\ pool' = ReleaseHandle(pool, h[2])
    /\ held' = held \ {h}
    /\ stale' \in {stale} \cup
                  (IF Cardinality(stale) < MaxStaleHandles
                   THEN {stale \cup {h}} ELSE {})
    /\ q' = FALSE
    /\ UNCHANGED <<tick, vramVars, gc, plk>>

DropReleaseAgain(h) ==
    /\ h \in stale
    /\ pool' = ReleaseHandle(pool, h[2])
    /\ stale' = stale \ {h}
    /\ q' = FALSE
    /\ UNCHANGED <<held, tick, vramVars, gc, plk>>

DropReleaseNull ==
    /\ pool' = ReleaseHandle(pool, NullHandle)
    /\ q' = TRUE
    /\ UNCHANGED <<held, stale, tick, vramVars, gc, plk>>

DropReleaseHeld == \E h \in held : DropRelease(h)

DropReleaseStale == \E h \in stale : DropReleaseAgain(h)

NextPoolDrop ==
    \/ PoolAcquire
    \/ DropReleaseHeld
    \/ DropReleaseStale
    \/ DropReleaseNull
    \/ PoolExpand
    \/ PoolShrink

SpecPoolDrop == InitPoolDrop /\ [][NextPoolDrop]_vars

\* the handles callers can have
Handles == Callers \X (0..(PoolMaxSize + MaxAcquisitions))

\* C32: releasing a buffer the pool does not track (an overflow buffer, or
\* one a shrink removed while a caller kept its handle) leaves the
\* available queue and the tracked buffers as they were, and counts as a
\* release; releasing a null handle changes nothing in the pool, the
\* release counter included.
C32_DropUntracked ==
    [][/\ \A h \in Handles :
              ((DropRelease(h) \/ DropReleaseAgain(h))
                   /\ h[2] \notin Range(pool.all_buffers))
                  => pool' = [pool EXCEPT !.total_releases = @ + 1]
       /\ DropReleaseNull => pool' = pool]_vars

\* two buffers were acquired and released, the first one twice: the second
\* time after a shrink had removed it from the pool, so that the pool still
\* has the one buffer the shrink left; then a null handle was released
C32_Witness ==
    /\ q = TRUE
    /\ pool.total_acquisitions = 2
    /\ pool.total_releases = 3
    /\ pool.pool_shrinks = 1
    /\ pool.all_buffers = <<1>>
    /\ pool.available_buffers = <<1>>
    /\ held = {} /\ stale = {}

\* an auto-shrink: TickFrame's call of ShrinkPool removed buffers
AutoShrinkStep ==
    /\ PoolTickShrink
    /\ Len(pool'.all_buffers) < Len(pool.all_buffers)

\* C33: an auto-shrink happens only with auto_shrink enabled and at least
\* shrink_delay_frames frames after the latest shrink that removed buffers,
\* be it an auto-shrink or a manual ShrinkPool.
C33_ShrinkCooldown ==
    [][AutoShrinkStep =>
          /\ pool.config.auto_shrink
          /\ pool.pool_shrinks > 0 =>
                 pool.current_frame - pool.last_shrink_frame
                     >= pool.config.shrink_delay_frames]_vars

\* ---------------------------------------------------------------------
\* The cap on the tracked total, with ExpandPool called for any size_t
\* count: small counts and counts within reach of 2^64.
ExpandCounts == {1, 2, -1, -2, -3}

\* q counts the calls of ExpandPool
InitPoolCap ==
    /\ \E c \in PoolConfigs : pool = PoolInit(c)
    /\ held = {}
    /\ stale = {}
    /\ tick = "idle"
    /\ q = 0
    /\ gc = GcInit(DefaultGcConfig)
    /\ plk = <<>>
    /\ VramUnused

CapExpand ==
    /\ q < MaxExpansions
    /\ \E count \in ExpandCounts : pool' = ExpandPool(pool, count)
    /\ q' = q + 1
    /\ UNCHANGED <<held, stale, tick, vramVars, gc, plk>>

NextPoolCap ==
    \/ PoolAcquire
    \/ PoolRelease
    \/ CapExpand
    \/ PoolShrink
    \/ PoolTickBegin
    \/ PoolTickShrink

SpecPoolCap == InitPoolCap /\ [][NextPoolCap]_vars

\* C34: the number of tracked buffers never exceeds max_pool_size.
C34_TrackedCap ==
    Len(pool.all_buffers) <= pool.config.max_pool_size

\* ---------------------------------------------------------------------
\* The collector called with ids it tracks and ids it does not.  q holds the
\* latest call (op, image_id) and the number of calls made.
IdCall(op, image_id) == [op |-> op, image_id |-> image_id, n |-> q.n + 1]

InitGcIds ==
    /\ gc = GcInit(DefaultGcConfig)
    /\ q = [op |-> "none", image_id |-> 0, n |-> 0]
    /\ plk = <<>>
    /\ VramUnused
    /\ PoolUnused

IdRegisterTexture ==
    /\ q.n < MaxIdCalls
    /\ \E image_id \in GcIds, is_render_target \in BOOLEAN :
           /\ gc' = RegisterTexture(gc, image_id, ForceSizeOf[image_id],
                                    is_render_target, Len(gc.order) + 1)
           /\ q' = IdCall("RegisterTexture", image_id)
    /\ UNCHANGED <<vramVars, poolVars, plk>>

IdMarkTextureUsed ==
    /\ q.n < MaxIdCalls + 1
    /\ \E image_id \in GcIds :
           /\ gc' = MarkTextureUsed(gc, image_id)
           /\ q' = IdCall("MarkTextureUsed", image_id)
    /\ UNCHANGED <<vramVars, poolVars, plk>>

IdUnregisterTexture ==
    /\ q.n < MaxIdCalls + 1
    /\ \E image_id \in GcIds :
           /\ gc' = UnregisterTexture(gc, image_id)
           /\ q' = IdCall("UnregisterTexture", image_id)
    /\ UNCHANGED <<vramVars, poolVars, plk>>

IdGetTexturesToPurge ==
    /\ q.n < MaxIdCalls
    /\ gc' = GetTexturesToPurge(gc).gc
    /\ q' = IdCall("GetTexturesToPurge", 0)
    /\ UNCHANGED <<vramVars, poolVars, plk>>

IdForceCleanup ==
    /\ q.n < MaxIdCalls + 1
    /\ \E target_free_mb \in ForceTargets :
           gc' = ForceCleanup(gc, target_free_mb)
    /\ q' = IdCall("ForceCleanup", 0)
    /\ UNCHANGED <<vramVars, poolVars, plk>>

IdTickFrame ==
    /\ gc.current_frame < MaxIdFrame
    /\ gc' = GcTickFrame(gc)
    /\ q' = [q EXCEPT !.op = "TickFrame", !.image_id = 0]
    /\ UNCHANGED <<vramVars, poolVars, plk>>

NextGcIds ==
    \/ IdRegisterTexture
    \/ IdMarkTextureUsed
    \/ IdUnregisterTexture
    \/ IdGetTexturesToPurge
    \/ IdTickFrame

SpecGcIds == InitGcIds /\ [][NextGcIds]_vars

\* the step is a call of op with an id that is tracked / is not tracked
IdStep(op) == q'.n # q.n /\ q'.op = op
KnownIdStep(op) == IdStep(op) /\ Tracks(gc, q'.image_id)
UnknownIdStep(op) == IdStep(op) /\ ~Tracks(gc, q'.image_id)

\* C35: MarkTextureUsed or UnregisterTexture with an id that is not tracked
\* leaves the registry, the estimate, the statistics and the frame counter
\* as they were; MarkTextureUsed with a tracked id sets that texture's
\* last_used_frame to the current frame, adds one to its usage_count and
\* changes nothing else.
C35_UnknownIds ==
    [][/\ (UnknownIdStep("MarkTextureUsed")
              \/ UnknownIdStep("UnregisterTexture")) => gc' = gc
       /\ KnownIdStep("MarkTextureUsed") =>
              LET image_id == q'.image_id
                  before == gc.tracked_textures[image_id]
                  after == gc'.tracked_textures[image_id]
              IN  /\ DOMAIN gc'.tracked_textures = DOMAIN gc.tracked_textures
                  /\ after.last_used_frame = gc.current_frame
                  /\ after.usage_count = before.usage_count + 1
                  /\ after.size_bytes = before.size_bytes
                  /\ after.is_render_target = before.is_render_target
                  /\ \A k \in DOMAIN gc.tracked_textures \ {image_id} :
                         gc'.tracked_textures[k] = gc.tracked_textures[k]
                  /\ gc'.order = gc.order
                  /\ gc'.current_vram_usage = gc.current_vram_usage
                  /\ gc'.current_frame = gc.current_frame
                  /\ gc'.total_textures_purged = gc.total_textures_purged
                  /\ gc'.total_vram_freed = gc.total_vram_freed
                  /\ gc'.config = gc.config]_vars

\* MarkTextureUsed was called last, with an id that is not tracked, in a
\* later frame than the one in which a tracked texture was marked
C35_Witness ==
    /\ q.op = "MarkTextureUsed"
    /\ ~Tracks(gc, q.image_id)
    /\ gc.current_frame = 2
    /\ gc.current_vram_usage = 30
    /\ \E k \in DOMAIN gc.tracked_textures :
           /\ gc.tracked_textures[k].usage_count = 2
           /\ gc.tracked_textures[k].last_used_frame = 1

\* ---------------------------------------------------------------------
\* The controller with its const queries.  q holds the latest query and the
\* value it returned.
QueryConfigs == {LowEndConfig, MidRangeConfig}

\* usages the host reports (MiB): below every threshold, above both
QueryUsageValues == {500, 1470}

QueryNames == {"GetUsagePercentage", "GetMemoryPressure", "GetAvailableVRAM",
               "IsOverLimit", "GetStats"}

QueryResult(s, op) ==
    CASE op = "GetUsagePercentage" -> GetUsagePercentage(s)
      [] op = "GetMemoryPressure" -> GetMemoryPressure(s)
      [] op = "GetAvailableVRAM" -> GetAvailableVRAM(s)
      [] op = "IsOverLimit" -> IsOverLimit(s)
      [] op = "GetStats" -> GetStats(s)

NoQuery == [op |-> "none", result |-> 0]

InitQuery ==
    /\ \E c \in QueryConfigs : vram = VramInit(c)
    /\ scn = ScnOff
    /\ vthr = <<>>
    /\ gc = GcInit(DefaultGcConfig)
    /\ q = NoQuery
    /\ plk = <<>>
    /\ PoolUnused

QuUpdateUsage ==
    /\ \E b \in QueryUsageValues : vram' = UpdateUsage(Enter(vram), b)
    /\ q' = NoQuery
    /\ UNCHANGED <<scn, vthr, poolVars, gc, plk>>

QuTickFrame ==
    /\ vram.current_frame < MaxEscalateFrame
    /\ vram' = TickFrame(Enter(vram))
    /\ q' = NoQuery
    /\ UNCHANGED <<scn, vthr, poolVars, gc, plk>>

QuQuery ==
    /\ \E op \in QueryNames : q' = [op |-> op, result |-> QueryResult(vram, op)]
    /\ UNCHANGED <<vramVars, poolVars, gc, plk>>

NextQuery ==
    \/ EsRegisterCleanupCallback
    \/ EsRegisterEmergencyCallback
    \/ QuUpdateUsage
    \/ QuTickFrame
    \/ QuQuery

SpecQuery == InitQuery /\ [][NextQuery]_vars

\* C36: TickFrame changes the frame counter and nothing else, and runs no
\* callback, whatever the usage and however long ago the last cleanup and
\* purge were; the queries GetUsagePercentage, GetMemoryPressure,
\* GetAvailableVRAM, IsOverLimit and GetStats change nothing.
C36_NoHiddenEffects ==
    [][/\ QuTickFrame =>
              /\ vram'.current_frame = vram.current_frame + 1
              /\ vram'.h_events = <<>>
              /\ \A f \in DOMAIN vram \ {"current_frame", "h_events"} :
                     vram'[f] = vram[f]
       /\ QuQuery => vram' = vram]_vars

\* GetStats was asked right after the tick to frame 120, with callbacks
\* registered, usage above both thresholds, both cooldowns over, and still
\* no cleanup pass and no purge made
C36_Witness ==
    /\ q.op = "GetStats"
    /\ q.result.current_frame = 120
    /\ vram.current_frame = 120
    /\ vram.cleanup_callbacks # <<>>
    /\ vram.emergency_callbacks # <<>>
    /\ ShouldCleanup(vram)
    /\ ShouldEmergencyPurge(vram)
    /\ vram.cleanup_count = 0
    /\ vram.emergency_purge_count = 0

\* ---------------------------------------------------------------------
\* The collector's estimate against its registry: the calls of SpecGcIds
\* and ForceCleanup over enough frames for ForceCleanup to remove textures;
\* the host never calls UpdateMemoryUsage.
SumTickFrame ==
    /\ gc.current_frame < MaxSumFrame
    /\ gc' = GcTickFrame(gc)
    /\ q' = [q EXCEPT !.op = "TickFrame", !.image_id = 0]
    /\ UNCHANGED <<vramVars, poolVars, plk>>

NextGcSum ==
    \/ IdRegisterTexture
    \/ IdMarkTextureUsed
    \/ IdUnregisterTexture
    \/ IdGetTexturesToPurge
    \/ IdForceCleanup
    \/ SumTickFrame

SpecGcSum == InitGcIds /\ [][NextGcSum]_vars

\* C37: the estimate equals the sum of the sizes of the tracked textures.
C37_EstimateIsSum ==
    gc.current_vram_usage = SumSizes(gc, gc.order)

\* C38: the estimate never holds a wrapped value, that is, no removal
\* subtracts more than the estimate, and the pressure predicate is not
\* raised by a wrapped estimate.
C38_EstimateNeverWraps ==
    ~Wrapped(gc.current_vram_usage)

\* ---------------------------------------------------------------------
\* The host's frame loop: every frame it reports the usage and then ticks.
\* q is the call the loop makes next.  Auto-cleanup is enabled.
LoopConfigs == {LowEndConfig}

\* usages the host reports (MiB): None, High below the cleanup threshold,
\* High above it
LoopUsageValues == {500, 830, 900}

InitFrameLoop ==
    /\ \E c \in LoopConfigs : vram = VramInit(c)
    /\ scn = ScnOff
    /\ vthr = <<>>
    /\ gc = GcInit(DefaultGcConfig)
    /\ q = "UpdateUsage"
    /\ plk = <<>>
    /\ PoolUnused

LoopRegisterCleanupCallback ==
    /\ vram.current_frame = 0
    /\ q = "UpdateUsage"
    /\ Len(vram.cleanup_callbacks) < MaxThreadCallbacks
    /\ \E cb \in PlainCleanupCallbacks :
           vram' = RegisterCleanupCallback(Enter(vram), cb)
    /\ UNCHANGED <<scn, vthr, poolVars, gcVars>>

LoopUpdateUsage ==
    /\ q = "UpdateUsage"
    /\ \E b \in LoopUsageValues : vram' = UpdateUsage(Enter(vram), b)
    /\ q' = "TickFrame"
    /\ UNCHANGED <<scn, vthr, poolVars, gc, plk>>

LoopTickFrame ==
    /\ q = "TickFrame"
    /\ vram.current_frame < MaxLoopFrame
    /\ vram' = TickFrame(Enter(vram))
    /\ q' = "UpdateUsage"
    /\ UNCHANGED <<scn, vthr, poolVars, gc, plk>>

NextFrameLoop ==
    \/ LoopRegisterCleanupCallback
    \/ LoopUpdateUsage
    \/ LoopTickFrame

\* the loop keeps running up to frame MaxLoopFrame
SpecFrameLoop ==
    /\ InitFrameLoop
    /\ [][NextFrameLoop]_vars
    /\ WF_vars(LoopUpdateUsage)
    /\ WF_vars(LoopTickFrame)

\* the level is High or above within CleanupMinInterval of start-up, when
\* no pass can have run yet
HighEarly ==
    /\ vram.config.enable_auto_cleanup
    /\ vram.last_pressure >= PHigh
    /\ vram.current_frame < CleanupMinInterval

C40_CountedOnce ==
    [][(PurgeListStep /\ q.fresh) =>
          LET First(image_id) == ~Listed(q.ids, image_id)
              first == SelectSeq(q'.ids, First)
          IN  /\ gc'.total_textures_purged
                     = gc.total_textures_purged + Len(first)
              /\ gc'.total_vram_freed
                     = gc.total_vram_freed + SumSizes(gc, first)]_vars

====
